---------------------------- MODULE Spec2Model ----------------------------
(***************************************************************************)
(* A model of flareone's core: the radix-tree Router                       *)
(* (packages/core/src/router/radix-router.ts), the DI Container            *)
(* (packages/core/src/di/container.ts) and the application pipeline        *)
(* (packages/core/src/application/factory.ts).                             *)
(*                                                                         *)
(* Strings are sequences of one-character strings, so that slicing,        *)
(* prefix tests and splitting are computed as the code computes them.      *)
(***************************************************************************)
EXTENDS Integers, Sequences, FiniteSets, TLC

VARIABLES
    router,      \* Router: [nodes: the RadixNode objects (1 is root), routes: RouteDefinition[]]
    lastMatch,   \* the request and result of the latest Router.match call
    di,          \* the Containers, the promises their resolutions created, the objects built
    log,         \* the resolve / resolveAsync calls made so far, with what each returned
    lastOp,      \* the name of the operation performed last
    cfg,         \* the application's configuration: options and module metadata
    app,         \* FlareoneApplication's fields
    tasks        \* the handleRequest and init calls made, each with its position

routerVars == <<router, lastMatch>>
diVars == <<di, log, lastOp>>
appVars == <<cfg, app, tasks>>
vars == <<router, lastMatch, di, log, lastOp, cfg, app, tasks>>

(***************************************************************************)
(* Generic helpers on partial maps (JS Map / object) and strings.          *)
(***************************************************************************)
EmptyMap == [x \in {} |-> 0]

MapSet(f, k, v) == [x \in (DOMAIN f) \cup {k} |-> IF x = k THEN v ELSE f[x]]

MapDelete(f, k) == [x \in (DOMAIN f) \ {k} |-> f[x]]

MapHas(f, k) == k \in DOMAIN f

Slice(s, from) == SubSeq(s, from, Len(s))

StartsWith(s, p) == Len(p) <= Len(s) /\ SubSeq(s, 1, Len(p)) = p

Min(a, b) == IF a <= b THEN a ELSE b

Max(a, b) == IF a >= b THEN a ELSE b

(***************************************************************************)
(* Router                                                                  *)
(***************************************************************************)
None == 0

\* HttpMethod values the model uses
Methods == {"GET", "POST"}

createNode(type, segment, pattern) ==
    [type |-> type, segment |-> segment, pattern |-> pattern,
     children |-> EmptyMap, paramChild |-> None, wildcardChild |-> None,
     handlers |-> EmptyMap]

NewRouter == [nodes |-> <<createNode("static", <<>>, <<>>)>>, routes |-> <<>>]

\* path.replace(/\/+/g, '/'): a '/' that follows a '/' is dropped
RECURSIVE CollapseSlashes(_)
CollapseSlashes(p) ==
    IF Len(p) <= 1 THEN p
    ELSE IF p[1] = "/" /\ p[2] = "/" THEN CollapseSlashes(Tail(p))
    ELSE <<p[1]>> \o CollapseSlashes(Tail(p))

normalizePath(path) ==
    LET n0 == CollapseSlashes(path)
        n1 == IF Len(n0) > 0 /\ n0[1] = "/" THEN Tail(n0) ELSE n0
        n2 == IF Len(n1) > 0 /\ n1[Len(n1)] = "/" THEN SubSeq(n1, 1, Len(n1) - 1) ELSE n1
    IN n2

\* path.split('/'): the pieces between slashes, empty pieces included
RECURSIVE SplitOnSlash(_, _)
SplitOnSlash(p, cur) ==
    IF p = <<>> THEN <<cur>>
    ELSE IF p[1] = "/" THEN <<cur>> \o SplitOnSlash(Tail(p), <<>>)
    ELSE SplitOnSlash(Tail(p), Append(cur, p[1]))

splitPath(path) ==
    IF path = <<>> THEN <<>>
    ELSE SelectSeq(SplitOnSlash(path, <<>>), LAMBDA s : s # <<>>)

\* segments.slice(index).join('/')
RECURSIVE JoinSlash(_)
JoinSlash(segs) ==
    IF segs = <<>> THEN <<>>
    ELSE IF Len(segs) = 1 THEN segs[1]
    ELSE segs[1] \o <<"/">> \o JoinSlash(Tail(segs))

\* index of the first "(" of s, or Len(s)+1
RECURSIVE FirstParen(_, _)
FirstParen(s, i) ==
    IF i > Len(s) THEN i
    ELSE IF s[i] = "(" THEN i
    ELSE FirstParen(s, i + 1)

\* segment.match(/^:([^(]+)(?:\((.+)\))?$/): name and pattern, or no match
ParamRegexMatch(segment) ==
    LET k == FirstParen(segment, 2)
        name == SubSeq(segment, 2, k - 1)
        rest == Slice(segment, k)
    IN IF name = <<>> THEN [ok |-> FALSE, name |-> <<>>, pattern |-> <<>>]
       ELSE IF rest = <<>> THEN [ok |-> TRUE, name |-> name, pattern |-> <<>>]
       ELSE IF Len(rest) >= 3 /\ rest[Len(rest)] = ")"
            THEN [ok |-> TRUE, name |-> name, pattern |-> SubSeq(rest, 2, Len(rest) - 1)]
       ELSE [ok |-> FALSE, name |-> <<>>, pattern |-> <<>>]

parseSegment(segment) ==
    IF segment[1] = "*"
    THEN [type |-> "wildcard",
          name |-> IF Len(segment) > 1 THEN Tail(segment)
                   ELSE <<"w","i","l","d","c","a","r","d">>,
          pattern |-> <<>>]
    ELSE IF segment[1] = ":" /\ ParamRegexMatch(segment).ok
    THEN LET m == ParamRegexMatch(segment)
         IN [type |-> IF m.pattern # <<>> THEN "regex" ELSE "param",
             name |-> m.name, pattern |-> m.pattern]
    ELSE [type |-> "static", name |-> segment, pattern |-> <<>>]

\* the result of an insertion step: the nodes after it and the node returned
Ins(nodes, node) == [nodes |-> nodes, node |-> node]

RECURSIVE CommonLength(_, _, _)
CommonLength(a, b, n) ==
    IF n < Min(Len(a), Len(b)) /\ a[n + 1] = b[n + 1]
    THEN CommonLength(a, b, n + 1)
    ELSE n

\* a split that leaves the existing node under the key of the whole segment
splitOrExtendNodeMiskeyed(nodes, parent, existing, newSegment, firstChar) ==
    LET commonLength == CommonLength(nodes[existing].segment, newSegment, 0)
        fresh == Len(nodes) + 1
        commonNode == [createNode("static", SubSeq(newSegment, 1, commonLength), <<>>) EXCEPT
                          !.children = MapSet(EmptyMap, firstChar, existing)]
        n1 == [nodes EXCEPT ![existing].segment = Slice(@, commonLength + 1),
                            ![parent].children = MapSet(@, firstChar, fresh)]
    IN Ins(Append(n1, commonNode), fresh)

splitOrExtendNode(nodes, parent, existing, newSegment, firstChar) ==
    LET existingSegment == nodes[existing].segment
        commonLength == CommonLength(existingSegment, newSegment, 0)
        fresh == Len(nodes) + 1
    IN IF commonLength = Len(existingSegment) /\ commonLength = Len(newSegment)
       THEN Ins(nodes, existing)
       ELSE IF commonLength = Len(newSegment)
       THEN LET suffix == Slice(existingSegment, commonLength + 1)
                commonNode == [createNode("static", newSegment, <<>>) EXCEPT
                                  !.children = MapSet(EmptyMap, suffix[1], existing)]
                n1 == [nodes EXCEPT ![existing].segment = suffix,
                                    ![parent].children = MapSet(@, firstChar, fresh)]
            IN Ins(Append(n1, commonNode), fresh)
       ELSE IF commonLength = Len(existingSegment)
       THEN LET remainingSegment == Slice(newSegment, commonLength + 1)
                remainingFirstChar == remainingSegment[1]
            IN IF MapHas(nodes[existing].children, remainingFirstChar)
               THEN Ins(nodes, nodes[existing].children[remainingFirstChar])
               ELSE Ins(Append([nodes EXCEPT ![existing].children =
                                    MapSet(@, remainingFirstChar, fresh)],
                               createNode("static", remainingSegment, <<>>)),
                        fresh)
       ELSE LET suffix == Slice(existingSegment, commonLength + 1)
                newSuffix == Slice(newSegment, commonLength + 1)
                commonNode == [createNode("static", SubSeq(existingSegment, 1, commonLength), <<>>)
                                 EXCEPT !.children =
                                    MapSet(MapSet(EmptyMap, suffix[1], existing),
                                           newSuffix[1], fresh + 1)]
                n1 == [nodes EXCEPT ![existing].segment = suffix,
                                    ![parent].children = MapSet(@, firstChar, fresh)]
            IN Ins(Append(Append(n1, commonNode), createNode("static", newSuffix, <<>>)),
                   fresh + 1)

insertSegment(nodes, parent, segment) ==
    LET parsed == parseSegment(segment)
        fresh == Len(nodes) + 1
    IN CASE parsed.type = "static" ->
              LET firstChar == segment[1]
              IN IF ~MapHas(nodes[parent].children, firstChar)
                 THEN Ins(Append([nodes EXCEPT ![parent].children = MapSet(@, firstChar, fresh)],
                                 createNode("static", segment, <<>>)),
                          fresh)
                 ELSE LET child == nodes[parent].children[firstChar]
                      IN IF nodes[child].segment # segment
                         THEN splitOrExtendNode(nodes, parent, child, segment, firstChar)
                         ELSE Ins(nodes, child)
         [] parsed.type \in {"param", "regex"} ->
              IF nodes[parent].paramChild = None
              THEN Ins(Append([nodes EXCEPT ![parent].paramChild = fresh],
                              createNode(parsed.type, parsed.name, parsed.pattern)),
                       fresh)
              ELSE Ins(nodes, nodes[parent].paramChild)
         [] OTHER ->
              IF nodes[parent].wildcardChild = None
              THEN Ins(Append([nodes EXCEPT ![parent].wildcardChild = fresh],
                              createNode("wildcard", parsed.name, <<>>)),
                       fresh)
              ELSE Ins(nodes, nodes[parent].wildcardChild)

\* the loop of register: insert the segments from i on, starting below `node`
RECURSIVE InsertSegments(_, _, _, _)
InsertSegments(nodes, node, segments, i) ==
    IF i > Len(segments) THEN Ins(nodes, node)
    ELSE LET r == insertSegment(nodes, node, segments[i])
         IN InsertSegments(r.nodes, r.node, segments, i + 1)

register(r, method, path, handler) ==
    LET segments == splitPath(normalizePath(path))
        ins == InsertSegments(r.nodes, 1, segments, 1)
    IN [nodes |-> [ins.nodes EXCEPT ![ins.node].handlers = MapSet(@, method, handler)],
        routes |-> Append(r.routes, [method |-> method, path |-> path, handler |-> handler])]

getHandler(nodes, node, method) ==
    IF MapHas(nodes[node].handlers, method) THEN nodes[node].handlers[method]
    ELSE IF MapHas(nodes[node].handlers, "ALL") THEN nodes[node].handlers["ALL"]
    ELSE None

\* pattern.test(segment) for the patterns the model registers: \d+
IsDigit(c) == c \in {"0", "1", "2", "3", "4", "5", "6", "7", "8", "9"}

RegexTest(pattern, segment) ==
    IF pattern = <<"\\d", "+">>
    THEN segment # <<>> /\ \A i \in 1..Len(segment) : IsDigit(segment[i])
    ELSE FALSE

\* the result of matchPath: the handler (or None) and the params object, which
\* every branch, failed or not, mutates in place
MR(handler, params) == [handler |-> handler, params |-> params]

\* the params object after a failed parameter branch: the saved value restored
\* or the binding deleted
RestoreParam(params, name, before) ==
    IF MapHas(before, name) THEN MapSet(params, name, before[name])
    ELSE MapDelete(params, name)

RECURSIVE matchPath(_, _, _, _, _, _)
matchWildcard(nodes, node, segments, index, params, method) ==
    IF nodes[node].wildcardChild # None
    THEN LET w == nodes[node].wildcardChild
             remainingPath == JoinSlash(Slice(segments, index))
         IN MR(getHandler(nodes, w, method), MapSet(params, nodes[w].segment, remainingPath))
    ELSE MR(None, params)

matchParam(nodes, node, segments, index, params, method) ==
    LET pc == nodes[node].paramChild
    IN IF pc # None /\ nodes[pc].pattern = <<>>
       THEN LET r == matchPath(nodes, pc, segments, index + 1,
                               MapSet(params, nodes[pc].segment, segments[index]), method)
            IN IF r.handler # None THEN r
               ELSE matchWildcard(nodes, node, segments, index,
                                  RestoreParam(r.params, nodes[pc].segment, params), method)
       ELSE matchWildcard(nodes, node, segments, index, params, method)

matchRegex(nodes, node, segments, index, params, method) ==
    LET pc == nodes[node].paramChild
    IN IF pc # None /\ nodes[pc].pattern # <<>> /\ RegexTest(nodes[pc].pattern, segments[index])
       THEN LET r == matchPath(nodes, pc, segments, index + 1,
                               MapSet(params, nodes[pc].segment, segments[index]), method)
            IN IF r.handler # None THEN r
               ELSE matchParam(nodes, node, segments, index,
                               RestoreParam(r.params, nodes[pc].segment, params), method)
       ELSE matchParam(nodes, node, segments, index, params, method)

matchPath(nodes, node, segments, index, params, method) ==
    IF index = Len(segments) + 1
    THEN MR(getHandler(nodes, node, method), params)
    ELSE LET segment == segments[index]
             firstChar == segment[1]
             hasStatic == MapHas(nodes[node].children, firstChar)
             staticChild == nodes[node].children[firstChar]
         IN IF hasStatic /\ StartsWith(segment, nodes[staticChild].segment)
            THEN IF nodes[staticChild].segment = segment
                 THEN LET r == matchPath(nodes, staticChild, segments, index + 1, params, method)
                      IN IF r.handler # None THEN r
                         ELSE matchRegex(nodes, node, segments, index, r.params, method)
                 ELSE LET remaining == Slice(segment, Len(nodes[staticChild].segment) + 1)
                          nextFirstChar == remaining[1]
                          hasNext == MapHas(nodes[staticChild].children, nextFirstChar)
                          nextChild == nodes[staticChild].children[nextFirstChar]
                      IN IF hasNext /\ remaining = nodes[nextChild].segment
                         THEN LET r == matchPath(nodes, nextChild, segments, index + 1, params, method)
                              IN IF r.handler # None THEN r
                                 ELSE matchRegex(nodes, node, segments, index, r.params, method)
                         ELSE matchRegex(nodes, node, segments, index, params, method)
            ELSE matchRegex(nodes, node, segments, index, params, method)

NoMatch == [found |-> FALSE, handler |-> None, params |-> EmptyMap]

match(r, method, path) ==
    LET segments == splitPath(normalizePath(path))
        res == matchPath(r.nodes, 1, segments, 1, EmptyMap, method)
    IN IF res.handler # None
       THEN [found |-> TRUE, handler |-> res.handler, params |-> res.params]
       ELSE NoMatch

(***************************************************************************)
(* DI Container                                                            *)
(*                                                                         *)
(* Values: 0 is undefined, n > 0 the n-th object constructed, -c the       *)
(* Container c itself.  A call's synchronous part runs to completion in    *)
(* one step; what it leaves pending is a promise, settled by a later step. *)
(***************************************************************************)
Undefined == 0

ContainerToken == "Container"

\* the depth of nested resolveInternal calls at which the engine's call stack
\* is exhausted (RangeError: Maximum call stack size exceeded)
StackLimit == 5

Val(v) == [k |-> "val", v |-> v, p |-> 0, err |-> [name |-> "", path |-> <<>>]]

Prom(p) == [k |-> "promise", v |-> Undefined, p |-> p, err |-> [name |-> "", path |-> <<>>]]

Throw(name, path) == [k |-> "throw", v |-> Undefined, p |-> 0, err |-> [name |-> name, path |-> path]]

Out(cs, res) == [cs |-> cs, res |-> res]

\* ProviderRecord; gen tells the record objects registered for one token apart,
\* value is what the factory of a value record returns
ProviderRecord(token, scope, kind, deps, async, instance, isResolved, gen) ==
    [token |-> token, scope |-> scope, kind |-> kind, deps |-> deps, async |-> async,
     instance |-> instance, isResolved |-> isResolved, gen |-> gen,
     value |-> IF kind = "value" THEN instance ELSE Undefined]

\* constructor(parent): the container registers itself under the Container token
NewContainer(parent, self) ==
    [parent |-> parent,
     providers |-> MapSet(EmptyMap, ContainerToken,
                          ProviderRecord(ContainerToken, "singleton", "value", <<>>, FALSE,
                                         0 - self, TRUE, 0)),
     resolutionStack |-> <<>>,
     scopedInstances |-> EmptyMap]

NewDI == [conts |-> <<NewContainer(None, 1)>>, promises |-> <<>>, instances |-> <<>>,
          invoked |-> EmptyMap, regs |-> EmptyMap]

Count(f, k) == IF MapHas(f, k) THEN f[k] ELSE 0

\* createProviderRecord: a provider is [provide, kind, scope, deps, async, value]
createProviderRecord(cs, provider) ==
    LET gen == Count(cs.regs, provider.provide) + 1
    IN CASE provider.kind = "class" ->
              ProviderRecord(provider.provide, provider.scope, "class", provider.deps, FALSE,
                             Undefined, FALSE, gen)
         [] provider.kind = "value" ->
              ProviderRecord(provider.provide, "singleton", "value", <<>>, FALSE,
                             provider.value, TRUE, gen)
         [] provider.kind = "factory" ->
              ProviderRecord(provider.provide, provider.scope, "factory", provider.deps,
                             provider.async, Undefined, FALSE, gen)
         [] OTHER ->
              ProviderRecord(provider.provide, "singleton", "alias", provider.deps, FALSE,
                             Undefined, FALSE, gen)

containerRegister(cs, c, provider) ==
    [cs EXCEPT !.conts[c].providers = MapSet(@, provider.provide, createProviderRecord(cs, provider)),
               !.regs = MapSet(@, provider.provide, Count(cs.regs, provider.provide) + 1)]

\* getProviderRecord: the container, c or an ancestor, that holds the record
RECURSIVE getProviderRecord(_, _, _)
getProviderRecord(conts, c, token) ==
    IF MapHas(conts[c].providers, token) THEN c
    ELSE IF conts[c].parent = None THEN None
    ELSE getProviderRecord(conts, conts[c].parent, token)

Includes(seq, x) == \E i \in 1..Len(seq) : seq[i] = x

Push(cs, c, token) == [cs EXCEPT !.conts[c].resolutionStack = Append(@, token)]

\* a pop that is skipped
PopSkipped(cs, c) == cs

Pop(cs, c) == [cs EXCEPT !.conts[c].resolutionStack = SubSeq(@, 1, Len(@) - 1)]

\* new cls(...args) and the object a factory function returns
Construct(cs, token, args) ==
    [cs EXCEPT !.instances = Append(@, [cls |-> token, args |-> args])]

NewPromise(cs, prom) == [cs EXCEPT !.promises = Append(@, prom)]

Promise(kind, src, args, owner, c, token, gen) ==
    [kind |-> kind, state |-> "pending", value |-> Undefined, src |-> src, args |-> args,
     owner |-> owner, c |-> c, token |-> token, gen |-> gen]

RECURSIVE resolveInternal(_, _, _, _, _)
RECURSIVE ResolveArgs(_, _, _, _, _, _, _)

\* useFactory(...deps)
InvokeFactory(cs, c, rec, args) ==
    LET counted == [cs EXCEPT !.invoked = MapSet(@, rec.token, Count(cs.invoked, rec.token) + 1)]
    IN IF rec.async
       THEN Out(NewPromise(counted, Promise("factory", 0, args, None, c, rec.token, rec.gen)),
                Prom(Len(cs.promises) + 1))
       ELSE Out(Construct(counted, rec.token, args), Val(Len(cs.instances) + 1))

\* instantiateClass(cls, container)
instantiateClass(cs, c, rec, depth) ==
    LET construct(a) ==
          LET args == a.res.args
              hasAsync == \E i \in 1..Len(args) : args[i].k = "promise"
          IN IF a.res.k = "throw" THEN Out(a.cs, a.res.thrown)
             ELSE IF hasAsync
             THEN Out(NewPromise(a.cs, Promise("all", 0, args, None, c, rec.token, rec.gen)),
                      Prom(Len(a.cs.promises) + 1))
             ELSE Out(Construct(a.cs, rec.token, [i \in 1..Len(args) |-> args[i].v]),
                      Val(Len(a.cs.instances) + 1))
    IN construct(ResolveArgs(cs, c, rec.deps, 1, <<>>, FALSE, depth))

\* record.factory(container), as createProviderRecord builds it for each shape
callFactory(cs, c, rec, depth) ==
    LET useFactory(a) ==
          IF a.res.k = "throw" THEN Out(a.cs, a.res.thrown)
          ELSE IF rec.kind = "factory"
          THEN InvokeFactory(a.cs, c, rec, [i \in 1..Len(a.res.args) |-> a.res.args[i].v])
          ELSE Out(a.cs, a.res.args[1])
    IN CASE rec.kind = "value" -> Out(cs, Val(rec.value))
         [] rec.kind = "class" -> instantiateClass(cs, c, rec, depth)
         [] OTHER -> useFactory(ResolveArgs(cs, c, rec.deps, 1, <<>>, TRUE, depth))

\* resolveSingleton with the pop deferred until the factory's promise settles
resolveSingletonAwaiting(cs, c, owner, token, depth) ==
    LET record == cs.conts[owner].providers[token]
    IN IF record.isResolved /\ record.instance # Undefined
       THEN Out(cs, Val(record.instance))
       ELSE LET store(f) ==
                  CASE f.res.k = "throw" -> Out(Pop(f.cs, c), f.res)
                    [] f.res.k = "promise" ->
                         Out(NewPromise(f.cs, Promise("thenSingleton", f.res.p, <<>>, owner, c,
                                                      token, record.gen)),
                             Prom(Len(f.cs.promises) + 1))
                    [] OTHER ->
                         Out([Pop(f.cs, c) EXCEPT
                                  !.conts[owner].providers[token].instance = f.res.v,
                                  !.conts[owner].providers[token].isResolved = TRUE],
                             f.res)
            IN store(callFactory(Push(cs, c, token), c, record, depth))

resolveSingleton(cs, c, owner, token, depth) ==
    LET record == cs.conts[owner].providers[token]
    IN IF record.isResolved /\ record.instance # Undefined
       THEN Out(cs, Val(record.instance))
       ELSE LET store(f, after) ==
                  CASE f.res.k = "throw" -> Out(after, f.res)
                    [] f.res.k = "promise" ->
                         Out(NewPromise(after, Promise("thenSingleton", f.res.p, <<>>, owner, c,
                                                       token, record.gen)),
                             Prom(Len(after.promises) + 1))
                    [] OTHER ->
                         Out([after EXCEPT !.conts[owner].providers[token].instance = f.res.v,
                                           !.conts[owner].providers[token].isResolved = TRUE],
                             f.res)
                popped(f) == store(f, Pop(f.cs, c))
            IN popped(callFactory(Push(cs, c, token), c, record, depth))

resolveRequestScoped(cs, c, owner, token, depth) ==
    LET record == cs.conts[owner].providers[token]
    IN IF MapHas(cs.conts[c].scopedInstances, token)
       THEN Out(cs, Val(cs.conts[c].scopedInstances[token]))
       ELSE LET store(f, after) ==
                  CASE f.res.k = "throw" -> Out(after, f.res)
                    [] f.res.k = "promise" ->
                         Out(NewPromise(after, Promise("thenScoped", f.res.p, <<>>, owner, c,
                                                       token, record.gen)),
                             Prom(Len(after.promises) + 1))
                    [] OTHER ->
                         Out([after EXCEPT !.conts[c].scopedInstances = MapSet(@, token, f.res.v)],
                             f.res)
                popped(f) == store(f, Pop(f.cs, c))
            IN popped(callFactory(Push(cs, c, token), c, record, depth))

resolveTransient(cs, c, owner, token, depth) ==
    callFactory(cs, c, cs.conts[owner].providers[token], depth)

resolveInternal(cs, c, token, optional, depth) ==
    IF depth > StackLimit
    THEN Out(cs, Throw("RangeError", <<>>))
    ELSE IF Includes(cs.conts[c].resolutionStack, token)
    THEN Out(cs, Throw("CircularDependencyError", Append(cs.conts[c].resolutionStack, token)))
    ELSE LET owner == getProviderRecord(cs.conts, c, token)
         IN IF owner = None
            THEN IF optional THEN Out(cs, Val(Undefined))
                 ELSE Out(cs, Throw("TokenNotFoundError", <<token>>))
            ELSE LET scope == cs.conts[owner].providers[token].scope
                 IN CASE scope = "request" -> resolveRequestScoped(cs, c, owner, token, depth)
                      [] scope = "transient" -> resolveTransient(cs, c, owner, token, depth)
                      [] OTHER -> resolveSingleton(cs, c, owner, token, depth)

\* resolve without the instanceof Promise check
containerResolveUnchecked(cs, c, token, optional, depth) ==
    resolveInternal(cs, c, token, optional, depth)

\* container.resolve(token, options)
containerResolve(cs, c, token, optional, depth) ==
    LET sync(r) ==
          IF r.res.k = "promise" THEN Out(r.cs, Throw("ContainerError", <<token>>))
          ELSE r
    IN sync(resolveInternal(cs, c, token, optional, depth))

\* deps.map(...): the dependencies from the i-th on are resolved in order, by
\* resolve (factory and alias providers) or by resolveInternal (constructors);
\* the first throw ends the map
ResolveArgs(cs, c, deps, i, acc, viaResolve, depth) ==
    IF i > Len(deps) THEN Out(cs, [k |-> "args", args |-> acc, thrown |-> Val(Undefined)])
    ELSE LET rest(r) ==
               IF r.res.k = "throw"
               THEN Out(r.cs, [k |-> "throw", args |-> acc, thrown |-> r.res])
               ELSE ResolveArgs(r.cs, c, deps, i + 1, Append(acc, r.res), viaResolve, depth)
         IN rest(IF viaResolve
                 THEN containerResolve(cs, c, deps[i].token, FALSE, depth + 1)
                 ELSE resolveInternal(cs, c, deps[i].token, deps[i].optional, depth + 1))

Dep(t) == [token |-> t, optional |-> FALSE]

ClassProvider(t, deps, scope) ==
    [provide |-> t, kind |-> "class", scope |-> scope, deps |-> deps, async |-> FALSE,
     value |-> Undefined]

FactoryProvider(t, deps, scope, async) ==
    [provide |-> t, kind |-> "factory", scope |-> scope, deps |-> deps, async |-> async,
     value |-> Undefined]

\* an object given as useValue
UseValue == 99

ValueProvider(t) ==
    [provide |-> t, kind |-> "value", scope |-> "singleton", deps |-> <<>>, async |-> FALSE,
     value |-> UseValue]

\* a clear that also drops the registrations
clearAll(cs, c) ==
    [cs EXCEPT !.conts[c].providers = [t \in {ContainerToken} |-> @[t]],
               !.conts[c].scopedInstances = EmptyMap]

\* clear(): the caches of container c are emptied, the records are kept
clear(cs, c) ==
    [cs EXCEPT !.conts[c].providers =
                   [t \in DOMAIN @ |->
                       IF t # ContainerToken
                       THEN [@[t] EXCEPT !.instance = Undefined, !.isResolved = FALSE]
                       ELSE @[t]],
               !.conts[c].scopedInstances = EmptyMap]

ExistingProvider(t, existing) ==
    [provide |-> t, kind |-> "alias", scope |-> "singleton", deps |-> <<Dep(existing)>>,
     async |-> FALSE, value |-> Undefined]

\* has(token): the container or an ancestor holds a provider for it
RECURSIVE containerHas(_, _, _)
containerHas(cs, c, token) ==
    \/ MapHas(cs.conts[c].providers, token)
    \/ (cs.conts[c].parent # None /\ containerHas(cs, cs.conts[c].parent, token))

\* createChild(): new Container(this)
createChild(cs, parent) ==
    [cs EXCEPT !.conts = Append(@, NewContainer(parent, Len(cs.conts) + 1))]

\* createRequestScope(): a child whose scopedInstances is a new Map
createRequestScope(cs, parent) ==
    LET child == Len(cs.conts) + 1
    IN [createChild(cs, parent) EXCEPT !.conts[child].scopedInstances = EmptyMap]

DepOptional(t) == [token |-> t, optional |-> TRUE]

\* whether promise p of cs can be settled: what it waits for has settled
Settled(cs, res) == res.k # "promise" \/ cs.promises[res.p].state # "pending"

CanSettle(cs, p) ==
    LET pr == cs.promises[p]
    IN /\ pr.state = "pending"
       /\ CASE pr.kind = "factory" -> TRUE
            [] pr.kind = "all" -> \A i \in 1..Len(pr.args) : Settled(cs, pr.args[i])
            [] OTHER -> cs.promises[pr.src].state # "pending"

ValueOf(cs, res) == IF res.k = "promise" THEN cs.promises[res.p].value ELSE res.v

Rejected(cs, res) == res.k = "promise" /\ cs.promises[res.p].state = "rejected"

\* the promise p settles and its callback runs
settle(cs, p) ==
    LET pr == cs.promises[p]
        fulfil(c2, v) == [c2 EXCEPT !.promises[p].state = "fulfilled", !.promises[p].value = v]
        reject(c2) == [c2 EXCEPT !.promises[p].state = "rejected"]
    IN CASE pr.kind = "factory" ->
              fulfil(Construct(cs, pr.token, pr.args), Len(cs.instances) + 1)
         [] pr.kind = "all" ->
              IF \E i \in 1..Len(pr.args) : Rejected(cs, pr.args[i])
              THEN reject(cs)
              ELSE fulfil(Construct(cs, pr.token,
                                    [i \in 1..Len(pr.args) |-> ValueOf(cs, pr.args[i])]),
                          Len(cs.instances) + 1)
         [] pr.kind = "thenSingleton" ->
              IF cs.promises[pr.src].state = "rejected" THEN reject(cs)
              ELSE LET v == cs.promises[pr.src].value
                       live == /\ MapHas(cs.conts[pr.owner].providers, pr.token)
                               /\ cs.conts[pr.owner].providers[pr.token].gen = pr.gen
                   IN fulfil(IF live
                             THEN [cs EXCEPT !.conts[pr.owner].providers[pr.token].instance = v,
                                             !.conts[pr.owner].providers[pr.token].isResolved = TRUE]
                             ELSE cs, v)
         [] OTHER ->
              IF cs.promises[pr.src].state = "rejected" THEN reject(cs)
              ELSE LET v == cs.promises[pr.src].value
                   IN fulfil([cs EXCEPT !.conts[pr.c].scopedInstances = MapSet(@, pr.token, v)], v)

(***************************************************************************)
(* Application: configuration                                              *)
(***************************************************************************)
sSlash == <<"/">>
pApi == <<"/", "a", "p", "i">>
pUsers == <<"/", "u">>
pAdmin == <<"/", "a", "d", "m">>

\* a configuration: whether a global prefix is set, whether the second
\* controller's dependency is unregistered, whether the first controller's
\* dependency is built by an asynchronous factory, whether a global filter is given
Config(prefix, broken, asyncDep, filter, noPipe, cors) ==
    [prefix |-> prefix, broken |-> broken, asyncDep |-> asyncDep, filter |-> filter,
     noPipe |-> noPipe, cors |-> cors, hooks |-> FALSE]

\* the configuration in which every module and controller class defines both
\* onModuleInit and onApplicationBootstrap
WithHooks(config) == [config EXCEPT !.hooks = TRUE]

BothHooks == {"onModuleInit", "onApplicationBootstrap"}

LifecycleHooks == BothHooks \cup {"onModuleDestroy"}

NoConfig == Config(<<>>, FALSE, FALSE, FALSE, FALSE, FALSE)

\* FlareoneApplicationOptions
Options ==
    [globalPrefix |-> cfg.prefix,
     cors |-> cfg.cors,
     guards |-> <<"G1">>,
     interceptors |-> <<"I1">>,
     pipes |-> <<"GP">>,
     filters |-> IF cfg.filter THEN <<"F1">> ELSE <<>>]

\* @Module metadata and the lifecycle hooks each module class defines
ModuleMetadata(m) ==
    IF m = "Root"
    THEN [imports |-> <<"Shared">>,
          providers |-> IF cfg.noPipe THEN <<>>
                        ELSE <<ClassProvider("PipeP", <<>>, "request")>>,
          controllers |-> <<"UsersCtl", "AdminCtl">>,
          hooks |-> IF cfg.hooks THEN LifecycleHooks ELSE {"onModuleInit"}]
    ELSE [imports |-> <<>>,
          providers |-> <<IF cfg.asyncDep THEN FactoryProvider("Svc", <<>>, "singleton", TRUE)
                          ELSE ClassProvider("Svc", <<>>, "singleton")>>,
          controllers |-> <<>>,
          hooks |-> IF cfg.hooks THEN LifecycleHooks ELSE {}]

RouteMeta(method, path, methodName, guards, interceptors, pipes, params) ==
    [method |-> method, path |-> path, methodName |-> methodName, guards |-> guards,
     interceptors |-> interceptors, pipes |-> pipes, params |-> params]

\* @Controller metadata: base path, constructor dependencies, decorated
\* methods with their enhancers and parameter decorators, lifecycle hooks
ControllerMetadata(c) ==
    IF c = "UsersCtl"
    THEN [path |-> pUsers, deps |-> <<Dep("Svc")>>,
          hooks |-> IF cfg.hooks THEN LifecycleHooks ELSE {"onApplicationBootstrap"},
          routes |-> <<RouteMeta("GET", <<>>, "list", <<"G2">>, <<"I2">>, <<"RP">>,
                                 <<[type |-> "param", pipes |-> <<"PipeP">>]>>)>>]
    ELSE [path |-> pAdmin,
          deps |-> IF cfg.broken THEN <<Dep("Missing")>> ELSE <<>>,
          hooks |-> IF cfg.hooks THEN LifecycleHooks ELSE {},
          routes |-> <<RouteMeta("GET", <<>>, "panel", <<>>, <<>>, <<>>, <<>>)>>]

HooksOf(cls) ==
    IF cls \in {"Root", "Shared"} THEN ModuleMetadata(cls).hooks ELSE ControllerMetadata(cls).hooks

AllControllers == {"UsersCtl", "AdminCtl"}

(***************************************************************************)
(* Application: state                                                      *)
(***************************************************************************)
\* new FlareoneApplication(rootModule, options); news, hookCalls, initFailed
\* and routed record what happened, for the properties
NewApp ==
    [isInitialized |-> FALSE,
     moduleInstances |-> <<>>,
     controllerInstances |-> <<>>,
     globalGuards |-> <<>>,
     globalInterceptors |-> <<>>,
     globalPipes |-> <<>>,
     globalFilters |-> <<>>,
     handlers |-> <<>>,
     news |-> EmptyMap,
     hookCalls |-> EmptyMap,
     initFailed |-> FALSE,
     routed |-> {}]

NoResponse == [status |-> 0, by |-> ""]

\* one handleRequest(request) or init() call; hooked lists the lifecycle hooks
\* the call has invoked, each with the controllers instantiated and the
\* controllers routed at that moment
NewTask(kind, method, path) ==
    [kind |-> kind, pc |-> "start", method |-> method, path |-> path,
     frames |-> <<>>, wait |-> 0, hook |-> "", hlist |-> "", hidx |-> 0,
     matched |-> FALSE, handler |-> 0, seenRouted |-> {}, stripped |-> <<>>,
     guards |-> <<>>, gi |-> 0, interceptors |-> <<>>,
     trace |-> <<>>, response |-> NoResponse, cors |-> FALSE, afterFail |-> FALSE,
     hooked |-> <<>>]

\* the state one step of a task works on
World(a, d, r, t) == [app |-> a, di |-> d, router |-> r, t |-> t]

Event(e, x) == [e |-> e, x |-> x]

Emit(W, e, x) == [W EXCEPT !.t.trace = Append(@, Event(e, x))]

\* Map.has / Map.set on the insertion-ordered class -> instance maps
HasKey(m, cls) == \E i \in 1..Len(m) : m[i].cls = cls

ClassesOf(m) == {m[i].cls : i \in 1..Len(m)}

SetKey(m, cls, inst) ==
    IF HasKey(m, cls)
    THEN [i \in 1..Len(m) |-> IF m[i].cls = cls THEN [cls |-> cls, inst |-> inst] ELSE m[i]]
    ELSE Append(m, [cls |-> cls, inst |-> inst])

(***************************************************************************)
(* Application: per-request pipeline                                       *)
(***************************************************************************)
\* the status a thrown error is normalized to by toHttpException
Exception(status) == [status |-> status]

\* a fetch handler without the top-level catch: the error escapes
handleExceptionUncaught(W, error, fo, i) == [W EXCEPT !.t.pc = "rejected"]

\* a top-level handler that answers with errorToResponse at once
handleExceptionUnfiltered(W, error, fo, i) ==
    [W EXCEPT !.t.pc = "done", !.t.response = [status |-> error.status, by |-> "errorToResponse"]]

\* handleException: the filters from the i-th on are offered the error;
\* fo.handledBy is the first filter whose catch returns a Response (of status
\* fo.status) instead of throwing, 0 when they all throw
RECURSIVE handleException(_, _, _, _)
handleException(W, error, fo, i) ==
    IF i > Len(W.app.globalFilters)
    THEN [W EXCEPT !.t.pc = "done", !.t.response = [status |-> error.status, by |-> "errorToResponse"]]
    ELSE LET W1 == Emit(W, "filter", W.app.globalFilters[i])
         IN IF fo.handledBy = i
            THEN [W1 EXCEPT !.t.pc = "done", !.t.response = [status |-> fo.status, by |-> "filter"]]
            ELSE handleException(W1, error, fo, i + 1)

\* for (const pipe of pipes) value = await pipe.transform(value, ...)
RECURSIVE ApplyPipes(_, _, _)
ApplyPipes(W, pipes, i) ==
    IF i > Len(pipes) THEN W
    ELSE ApplyPipes(Emit(W, "pipe", pipes[i]), pipes, i + 1)

\* resolveParameters: the per-parameter pipes of the parameters from the i-th
\* on; a pipe given as a class is resolved from the container
RECURSIVE ParamPipes(_, _, _, _)
ParamPipes(W, pipes, i, err) ==
    IF i > Len(pipes) \/ err.status # 0 THEN [W |-> W, err |-> err]
    ELSE LET transform(r) ==
               IF r.res.k = "throw"
               THEN [W |-> [W EXCEPT !.di = r.cs], err |-> Exception(500)]
               ELSE ParamPipes(Emit([W EXCEPT !.di = r.cs], "pipe", r.res.v), pipes, i + 1, err)
         IN transform(containerResolve(W.di, 1, pipes[i], FALSE, 1))

RECURSIVE resolveParameters(_, _, _, _)
resolveParameters(W, params, i, err) ==
    IF i > Len(params) \/ err.status # 0 THEN [W |-> W, err |-> err]
    ELSE LET rest(r) == resolveParameters(r.W, params, i + 1, r.err)
         IN rest(ParamPipes(W, params[i].pipes, 1, err))

\* every argument goes through the global pipes, then the route's pipes
RECURSIVE TransformArgs(_, _, _, _)
TransformArgs(W, n, pipes, i) ==
    IF i > n THEN W
    ELSE TransformArgs(ApplyPipes(W, pipes, 1), n, pipes, i + 1)

executeHandler(W) ==
    LET handler == W.app.handlers[W.t.handler]
        pipes == W.app.globalPipes \o handler.pipes
        invoke(r) ==
          IF r.err.status # 0 THEN [W |-> r.W, err |-> r.err]
          ELSE [W |-> [Emit(TransformArgs(r.W, Len(handler.params), pipes, 1),
                            "handler", W.t.handler)
                         EXCEPT !.t.afterFail = W.app.initFailed],
                err |-> Exception(0)]
    IN invoke(resolveParameters(W, handler.params, 1, Exception(0)))

\* buildChain: chainIndex is shared by all the continuations of one request;
\* an interceptor records its entry, awaits next.handle() and records its exit
RECURSIVE buildChain(_, _)
buildChain(W, chainIndex) ==
    IF chainIndex < 1
    THEN executeHandler(W)
    ELSE LET interceptor == W.t.interceptors[chainIndex]
             intercept(inner) ==
               IF inner.err.status # 0 THEN inner
               ELSE [W |-> Emit(inner.W, "after", interceptor), err |-> inner.err]
         IN intercept(buildChain(Emit(W, "before", interceptor), chainIndex - 1))

\* handleCors(request, response): the response is rebuilt with the CORS headers
handleCors(W) == [W EXCEPT !.t.cors = TRUE]

\* executePipeline from the interceptor stage on, and resultToResponse
runInterceptors(W, fo) ==
    LET handler == W.app.handlers[W.t.handler]
        W1 == [W EXCEPT !.t.interceptors = W.app.globalInterceptors \o handler.interceptors]
        respond(r) ==
          IF r.err.status # 0 THEN handleException(r.W, r.err, fo, 1)
          ELSE LET W2 == [r.W EXCEPT !.t.pc = "done",
                                     !.t.response = [status |-> 200, by |-> "handler"]]
               IN IF Options.cors THEN handleCors(W2) ELSE W2
    IN respond(buildChain(W1, Len(W1.t.interceptors)))

\* a guard loop that lets every request through
GuardRejectsNever(canActivate) == FALSE

\* if (!canActivate) throw new HttpException('Forbidden', 403)
GuardRejects(canActivate) == ~canActivate

\* one turn of the guard loop: the awaited canActivate of guard gi returned
guardReturned(W, canActivate, fo) ==
    LET W1 == Emit(W, IF canActivate THEN "guardTrue" ELSE "guardFalse", W.t.guards[W.t.gi])
    IN IF GuardRejects(canActivate)
       THEN handleException(W1, Exception(403), fo, 1)
       ELSE IF W.t.gi < Len(W.t.guards)
       THEN [W1 EXCEPT !.t.gi = @ + 1]
       ELSE runInterceptors(W1, fo)

\* path.startsWith(globalPrefix) ? path.slice(globalPrefix.length) || '/' : path
stripPrefix(path, prefix) ==
    IF prefix # <<>> /\ StartsWith(path, prefix)
    THEN IF Slice(path, Len(prefix) + 1) = <<>> THEN sSlash ELSE Slice(path, Len(prefix) + 1)
    ELSE path

\* a fetch handler that routes OPTIONS requests like any other
IsPreflightNever(method) == FALSE

\* if (this.options.cors && request.method === 'OPTIONS')
IsPreflight(method) == Options.cors /\ method = "OPTIONS"

\* handleRequest after the lazy init: routing, and the pipeline up to the
\* first guard's canActivate
routeRequest(W, fo) ==
    LET path == stripPrefix(W.t.path, Options.globalPrefix)
        executePipeline(m) ==
          LET W1 == [W EXCEPT !.t.stripped = path, !.t.seenRouted = W.app.routed,
                              !.t.matched = m.found, !.t.handler = m.handler]
          IN IF ~m.found THEN handleException(W1, Exception(404), fo, 1)
             ELSE LET guards == W.app.globalGuards \o W.app.handlers[m.handler].guards
                  IN IF guards = <<>> THEN runInterceptors(W1, fo)
                     ELSE [W1 EXCEPT !.t.pc = "guards", !.t.guards = guards, !.t.gi = 1]
    IN IF IsPreflight(W.t.method)
       THEN handleCors([W EXCEPT !.t.pc = "done", !.t.response = [status |-> 204, by |-> "cors"]])
       ELSE executePipeline(match(W.router, W.t.method, path))

(***************************************************************************)
(* Application: initialization                                             *)
(***************************************************************************)
\* resolveEnhancer: container.resolve(cls), or a bare new when that throws
resolveEnhancer(W, cls) ==
    LET orNew(r) ==
          IF r.res.k = "throw"
          THEN [W |-> [W EXCEPT !.di = Construct(r.cs, cls, <<>>)], v |-> Len(r.cs.instances) + 1]
          ELSE [W |-> [W EXCEPT !.di = r.cs], v |-> r.res.v]
    IN orNew(containerResolve(W.di, 1, cls, FALSE, 1))

RECURSIVE resolveEnhancers(_, _, _, _)
resolveEnhancers(W, classes, i, acc) ==
    IF i > Len(classes) THEN [W |-> W, v |-> acc]
    ELSE LET rest(r) == resolveEnhancers(r.W, classes, i + 1, Append(acc, r.v))
         IN rest(resolveEnhancer(W, classes[i]))

\* each list of the options is resolved and pushed in turn
setupGlobalEnhancers(W) ==
    LET filters(f) == [f.W EXCEPT !.app.globalFilters = @ \o f.v]
        pipes(p) ==
          filters(resolveEnhancers([p.W EXCEPT !.app.globalPipes = @ \o p.v],
                                   Options.filters, 1, <<>>))
        interceptors(i) ==
          pipes(resolveEnhancers([i.W EXCEPT !.app.globalInterceptors = @ \o i.v],
                                 Options.pipes, 1, <<>>))
        guards(g) ==
          interceptors(resolveEnhancers([g.W EXCEPT !.app.globalGuards = @ \o g.v],
                                        Options.interceptors, 1, <<>>))
    IN guards(resolveEnhancers(W, Options.guards, 1, <<>>))

WithSlash(path) == IF StartsWith(path, sSlash) THEN path ELSE sSlash \o path

\* the full path a route is registered under
fullPath(basePath, routePath) ==
    LET p0 == Options.globalPrefix
        p1 == IF basePath # <<>> THEN p0 \o WithSlash(basePath) ELSE p0
        p2 == IF routePath # <<>> THEN p1 \o WithSlash(routePath) ELSE p1
    IN IF p2 = <<>> THEN sSlash ELSE p2

\* the body of registerRoutes' inner loop for one decorated method
registerRoute(W, entry, meta) ==
    LET add(g, i, p) ==
          LET handler == [controller |-> entry.inst, cls |-> entry.cls,
                          methodName |-> meta.methodName, guards |-> g.v,
                          interceptors |-> i.v, pipes |-> p.v, params |-> meta.params]
              id == Len(p.W.app.handlers) + 1
          IN [p.W EXCEPT !.app.handlers = Append(@, handler),
                         !.router = register(@, meta.method,
                                             fullPath(ControllerMetadata(entry.cls).path,
                                                      meta.path), id)]
        pipes(g, i) == add(g, i, resolveEnhancers(i.W, meta.pipes, 1, <<>>))
        interceptors(g) == pipes(g, resolveEnhancers(g.W, meta.interceptors, 1, <<>>))
    IN interceptors(resolveEnhancers(W, meta.guards, 1, <<>>))

RECURSIVE registerMethods(_, _, _, _)
registerMethods(W, entry, routes, j) ==
    IF j > Len(routes) THEN W
    ELSE registerMethods(registerRoute(W, entry, routes[j]), entry, routes, j + 1)

\* registerRoutes: the controllers from the i-th on
RECURSIVE registerRoutes(_, _)
registerRoutes(W, i) ==
    IF i > Len(W.app.controllerInstances) THEN W
    ELSE LET entry == W.app.controllerInstances[i]
             W1 == registerMethods(W, entry, ControllerMetadata(entry.cls).routes, 1)
         IN registerRoutes([W1 EXCEPT !.app.routed = @ \cup {entry.cls}], i + 1)

\* init's last statements, and the return into handleRequest when the call
\* was the lazy one
finishInit(W, fo) ==
    LET W1 == [W EXCEPT !.app.isInitialized = TRUE]
    IN IF W.t.kind = "request" THEN routeRequest(W1, fo)
       ELSE [W1 EXCEPT !.t.pc = "done"]

\* close's last statement
finishClose(W) == [W EXCEPT !.di = clear(@, 1), !.t.pc = "done"]

\* callLifecycleHooks('onModuleInit') then ('onApplicationBootstrap') of init,
\* or callLifecycleHooks('onModuleDestroy') of close: from the task's position
\* on, up to the next hook that is called and awaited
RECURSIVE callLifecycleHooks(_, _)
callLifecycleHooks(W, fo) ==
    LET list == IF W.t.hlist = "modules" THEN W.app.moduleInstances
                ELSE W.app.controllerInstances
    IN IF W.t.hidx > Len(list)
       THEN IF W.t.hlist = "modules"
            THEN callLifecycleHooks([W EXCEPT !.t.hlist = "controllers", !.t.hidx = 1], fo)
            ELSE IF W.t.hook = "onModuleDestroy" THEN finishClose(W)
            ELSE IF W.t.hook = "onModuleInit"
            THEN callLifecycleHooks([W EXCEPT !.t.hook = "onApplicationBootstrap",
                                              !.t.hlist = "modules", !.t.hidx = 1], fo)
            ELSE finishInit(W, fo)
       ELSE LET entry == list[W.t.hidx]
                key == <<entry.inst, W.t.hook>>
            IN IF W.t.hook \in HooksOf(entry.cls)
               THEN [W EXCEPT !.t.pc = "hook", !.t.hidx = @ + 1,
                              !.t.hooked = Append(@, [cls |-> entry.cls, hook |-> W.t.hook,
                                                      routed |-> W.app.routed,
                                                      controllers |-> ClassesOf(W.app.controllerInstances)]),
                              !.app.hookCalls = MapSet(@, key, Count(W.app.hookCalls, key) + 1)]
               ELSE callLifecycleHooks([W EXCEPT !.t.hidx = @ + 1], fo)

\* init after processModule(rootModule) has returned
afterModules(W, fo) ==
    callLifecycleHooks([registerRoutes(setupGlobalEnhancers(W), 1) EXCEPT
                           !.t.hook = "onModuleInit", !.t.hlist = "modules", !.t.hidx = 1],
                       fo)

\* init() rejects: the error propagates out of handleRequest's await
failInit(W) == [W EXCEPT !.app.initFailed = TRUE, !.t.pc = "rejected"]

RECURSIVE registerProviders(_, _, _)
registerProviders(W, providers, i) ==
    IF i > Len(providers) THEN W
    ELSE registerProviders([W EXCEPT !.di = containerRegister(@, 1, providers[i])],
                           providers, i + 1)

\* processModule up to its import loop: nothing for a module already seen
enterModule(W, m) ==
    IF HasKey(W.app.moduleInstances, m) THEN W
    ELSE LET W1 == [W EXCEPT !.di = Construct(@, m, <<>>),
                             !.app.moduleInstances = SetKey(@, m, Len(W.di.instances) + 1),
                             !.app.news = MapSet(@, m, Count(W.app.news, m) + 1)]
             W2 == registerProviders(W1, ModuleMetadata(m).providers, 1)
         IN [W2 EXCEPT !.t.frames = Append(@, [module |-> m, stage |-> "imports", i |-> 1])]

\* processModule's loops, resumed at the innermost call in progress, up to a
\* controller whose resolveAsync promise is pending
RECURSIVE continueModules(_, _)
continueModules(W, fo) ==
    IF W.t.frames = <<>> THEN afterModules(W, fo)
    ELSE LET n == Len(W.t.frames)
             top == W.t.frames[n]
             meta == ModuleMetadata(top.module)
         IN IF top.stage = "imports"
            THEN IF top.i > Len(meta.imports)
                 THEN continueModules([W EXCEPT !.t.frames[n].stage = "controllers",
                                                !.t.frames[n].i = 1], fo)
                 ELSE continueModules(enterModule([W EXCEPT !.t.frames[n].i = @ + 1],
                                                  meta.imports[top.i]), fo)
            ELSE IF top.i > Len(meta.controllers)
                 THEN continueModules([W EXCEPT !.t.frames = SubSeq(@, 1, n - 1)], fo)
                 ELSE LET ctl == meta.controllers[top.i]
                          reg == containerRegister(W.di, 1,
                                    ClassProvider(ctl, ControllerMetadata(ctl).deps, "singleton"))
                          await(r) ==
                            CASE r.res.k = "throw" -> failInit([W EXCEPT !.di = r.cs])
                              [] r.res.k = "promise" ->
                                   [W EXCEPT !.di = r.cs, !.t.pc = "modules", !.t.wait = r.res.p]
                              [] OTHER ->
                                   continueModules(
                                       [W EXCEPT !.di = r.cs,
                                                 !.app.controllerInstances = SetKey(@, ctl, r.res.v),
                                                 !.t.frames[n].i = @ + 1], fo)
                      IN await(resolveInternal(reg, 1, ctl, FALSE, 1))

\* the awaited resolveAsync(controller) promise has settled
resumeModules(W, fo) ==
    LET n == Len(W.t.frames)
        top == W.t.frames[n]
        ctl == ModuleMetadata(top.module).controllers[top.i]
        pr == W.di.promises[W.t.wait]
    IN IF pr.state = "rejected" THEN failInit(W)
       ELSE continueModules([W EXCEPT !.app.controllerInstances = SetKey(@, ctl, pr.value),
                                      !.t.frames[n].i = @ + 1, !.t.wait = 0], fo)

\* init(), entered with isInitialized false
startInit(W, fo) == continueModules(enterModule(W, "Root"), fo)

(***************************************************************************)
(* The Router exercised on its own: routes are registered one by one and   *)
(* requests are matched against the tree built so far.                     *)
(***************************************************************************)
MaxRoutes == 3

\* "/" + segments joined by "/"
PathOf(segs) == <<"/">> \o JoinSlash(segs)

sA == <<"a">>
sAB == <<"a", "b">>
sABC == <<"a", "b", "c">>
sAC == <<"a", "c">>
sB == <<"b">>
sC == <<"c">>
sParamX == <<":", "x">>
sWildW == <<"*", "w">>

\* the (method, path) pairs register is called with
RouteInputs ==
    ({"GET"} \X {PathOf(<<sA>>), PathOf(<<sAB>>), PathOf(<<sABC>>), PathOf(<<sAC>>),
                 PathOf(<<sA, sB>>), PathOf(<<sParamX>>), PathOf(<<sParamX, sB>>),
                 PathOf(<<sA, sWildW>>)})
    \cup ({"POST"} \X {PathOf(<<sA>>), PathOf(<<sA, sWildW>>)})

\* the (method, path) pairs match is called with
RequestInputs ==
    ({"GET"} \X {PathOf(<<sA>>), PathOf(<<sAB>>), PathOf(<<sABC>>), PathOf(<<sAC>>),
                 PathOf(<<sB>>), PathOf(<<sA, sB>>), PathOf(<<sA, sC>>),
                 PathOf(<<sB, sB>>), PathOf(<<sA, sB, sC>>), PathOf(<<sAB, sB>>)})
    \cup ({"POST"} \X {PathOf(<<sA>>), PathOf(<<sA, sB>>)})

NoCall == [called |-> FALSE, method |-> "", path |-> <<>>, result |-> NoMatch]

InitRouter ==
    /\ router = NewRouter
    /\ lastMatch = NoCall
    /\ di = NewDI
    /\ log = <<>>
    /\ lastOp = "new"
    /\ cfg = NoConfig
    /\ app = NewApp
    /\ tasks = <<>>

\* router.register(method, path, handler) with a fresh handler object, named by
\* its position among the registrations
Register(method, path) ==
    /\ Len(router.routes) < MaxRoutes
    /\ router' = register(router, method, path, Len(router.routes) + 1)
    /\ lastMatch' = NoCall
    /\ UNCHANGED <<diVars, appVars>>

\* router.match(method, path)
Match(method, path) ==
    /\ router.routes # <<>>
    /\ lastMatch' = [called |-> TRUE, method |-> method, path |-> path,
                     result |-> match(router, method, path)]
    /\ UNCHANGED <<router, diVars, appVars>>

NextRouter ==
    \/ \E in \in RouteInputs : Register(in[1], in[2])
    \/ \E in \in RequestInputs : Match(in[1], in[2])

SpecRouter == InitRouter /\ [][NextRouter]_vars

(***************************************************************************)
(* The application: requests arrive (the first ones before the application *)
(* is initialized), init() is called, awaited hooks, guards and promises   *)
(* return in any order.                                                    *)
(***************************************************************************)
MaxTasks == 2

\* the applications: the plain one, and one for each option switched on
Configs ==
    {Config(<<>>, FALSE, FALSE, FALSE, FALSE, FALSE),
     Config(pApi, FALSE, FALSE, FALSE, FALSE, FALSE),
     Config(<<>>, TRUE, FALSE, FALSE, FALSE, FALSE),
     Config(<<>>, FALSE, TRUE, FALSE, FALSE, FALSE),
     Config(<<>>, FALSE, FALSE, TRUE, FALSE, FALSE),
     Config(<<>>, FALSE, FALSE, FALSE, TRUE, FALSE)}

\* the URL paths of the requests
RequestPaths == {pUsers, pApi \o pUsers, pAdmin}

\* what the global filters do with an error: none of them handles it, or the
\* first or the second one installed does
FilterChoices ==
    {[handledBy |-> 0, status |-> 0]} \cup
        IF Options.filters = <<>> THEN {}
        ELSE {[handledBy |-> 1, status |-> 500], [handledBy |-> 2, status |-> 500]}

InitApp ==
    /\ cfg \in Configs
    /\ app = NewApp
    /\ tasks = <<>>
    /\ di = NewDI
    /\ log = <<>>
    /\ lastOp = "new"
    /\ router = NewRouter
    /\ lastMatch = NoCall

Commit(W, i) ==
    /\ app' = W.app
    /\ di' = W.di
    /\ router' = W.router
    /\ tasks' = [j \in 1..Max(Len(tasks), i) |-> IF j = i THEN W.t ELSE tasks[j]]
    /\ UNCHANGED <<cfg, log, lastOp, lastMatch>>

\* handleRequest(request): a new request arrives
HandleRequest(method, path, fo) ==
    /\ Len(tasks) < MaxTasks
    /\ LET W == World(app, di, router, NewTask("request", method, path))
       IN Commit(IF ~app.isInitialized THEN startInit(W, fo) ELSE routeRequest(W, fo),
                 Len(tasks) + 1)

\* app.init() is called
CallInit(fo) ==
    /\ Len(tasks) < MaxTasks
    /\ LET W == World(app, di, router, NewTask("init", "", <<>>))
       IN Commit(IF app.isInitialized THEN [W EXCEPT !.t.pc = "done"] ELSE startInit(W, fo),
                 Len(tasks) + 1)

\* app.close() is called
CallClose(fo) ==
    /\ Len(tasks) < MaxTasks
    /\ LET W == World(app, di, router, NewTask("close", "", <<>>))
       IN Commit(callLifecycleHooks([W EXCEPT !.t.hook = "onModuleDestroy",
                                              !.t.hlist = "modules", !.t.hidx = 1], fo),
                 Len(tasks) + 1)

\* the controller promise a task awaits in processModule has settled
ResumeModules(i, fo) ==
    /\ tasks[i].pc = "modules"
    /\ di.promises[tasks[i].wait].state # "pending"
    /\ Commit(resumeModules(World(app, di, router, tasks[i]), fo), i)

\* the lifecycle hook a task awaits returns
HookReturns(i, fo) ==
    /\ tasks[i].pc = "hook"
    /\ Commit(callLifecycleHooks(World(app, di, router, tasks[i]), fo), i)

\* the canActivate a task awaits returns
GuardReturns(i, canActivate, fo) ==
    /\ tasks[i].pc = "guards"
    /\ Commit(guardReturned(World(app, di, router, tasks[i]), canActivate, fo), i)

\* a pending promise of the container settles
PromiseSettles(p) ==
    /\ CanSettle(di, p)
    /\ di' = settle(di, p)
    /\ UNCHANGED <<cfg, app, tasks, log, lastOp, router, lastMatch>>

NextApp ==
    \/ \E path \in RequestPaths, fo \in FilterChoices : HandleRequest("GET", path, fo)
    \/ \E fo \in FilterChoices : CallInit(fo)
    \/ \E i \in 1..Len(tasks), fo \in FilterChoices : ResumeModules(i, fo)
    \/ \E i \in 1..Len(tasks), fo \in FilterChoices : HookReturns(i, fo)
    \/ \E i \in 1..Len(tasks), canActivate \in BOOLEAN, fo \in FilterChoices :
          GuardReturns(i, canActivate, fo)
    \/ \E p \in 1..Len(di.promises) : PromiseSettles(p)

SpecApp == InitApp /\ [][NextApp]_vars

(***************************************************************************)
(* What it means for a request path to instantiate a route template.       *)
(***************************************************************************)
\* the segments of a registered route's path template
TemplateOf(route) == splitPath(normalizePath(route.path))

\* path segments ps instantiate template segments ts: statics literally,
\* a parameter by one segment, a wildcard by all the remaining (one or more)
RECURSIVE Instantiates(_, _)
Instantiates(ps, ts) ==
    IF ts = <<>> THEN ps = <<>>
    ELSE IF ps = <<>> THEN FALSE
    ELSE LET t == parseSegment(ts[1])
         IN CASE t.type = "static" -> ps[1] = ts[1] /\ Instantiates(Tail(ps), Tail(ts))
              [] t.type = "param" -> Instantiates(Tail(ps), Tail(ts))
              [] t.type = "regex" -> RegexTest(t.pattern, ps[1]) /\ Instantiates(Tail(ps), Tail(ts))
              [] OTHER -> Len(ts) = 1

\* the bindings an instantiation determines: name |-> literal text at its position
RECURSIVE BindingsOf(_, _)
BindingsOf(ps, ts) ==
    IF ts = <<>> \/ ps = <<>> THEN EmptyMap
    ELSE LET t == parseSegment(ts[1])
         IN CASE t.type = "static" -> BindingsOf(Tail(ps), Tail(ts))
              [] t.type \in {"param", "regex"} ->
                    MapSet(BindingsOf(Tail(ps), Tail(ts)), t.name, ps[1])
              [] OTHER -> MapSet(EmptyMap, t.name, JoinSlash(ps))

\* the registered routes have pairwise distinct (method, normalized template)
DistinctRoutes ==
    \A i, j \in 1..Len(router.routes) :
        i # j => \/ router.routes[i].method # router.routes[j].method
                 \/ TemplateOf(router.routes[i]) # TemplateOf(router.routes[j])

\* the routes of the request's method whose template the request path instantiates
Candidates(method, path) ==
    {i \in 1..Len(router.routes) :
        /\ router.routes[i].method = method
        /\ Instantiates(splitPath(normalizePath(path)), TemplateOf(router.routes[i]))}

\* C1: with pairwise distinct routes, a request path that instantiates exactly
\* one registered template of its method is matched to that route's own
\* handler, with exactly the bindings of its parameter and wildcard positions
\* (none for a purely static template).
RouterRoundTrip ==
    (lastMatch.called /\ DistinctRoutes) =>
        \A i \in 1..Len(router.routes) :
            Candidates(lastMatch.method, lastMatch.path) = {i} =>
                /\ lastMatch.result.found
                /\ lastMatch.result.handler = i
                /\ lastMatch.result.params =
                      BindingsOf(splitPath(normalizePath(lastMatch.path)),
                                 TemplateOf(router.routes[i]))

\* C10: every binding of a returned match is the binding of a parameter or
\* wildcard position of the matched route: nothing bound on a branch that
\* failed is left in the returned map.
NoLeakedBindings ==
    (lastMatch.called /\ lastMatch.result.found) =>
        LET route == router.routes[lastMatch.result.handler]
            ps == splitPath(normalizePath(lastMatch.path))
            own == BindingsOf(ps, TemplateOf(route))
        IN \A name \in DOMAIN lastMatch.result.params :
              \E n \in DOMAIN own : own[n] = lastMatch.result.params[name]

(***************************************************************************)
(* The Container exercised on its own: providers are registered in the     *)
(* root container, tokens are resolved through resolve and resolveAsync,   *)
(* and pending promises settle in any order.                               *)
(***************************************************************************)
MaxRegs == 2

MaxCalls == 2

Tokens == {"A", "B"}

\* the providers register is called with
ProviderInputs ==
    {ClassProvider("A", <<Dep("B")>>, "singleton"),
     ClassProvider("A", <<Dep("B")>>, "transient"),
     ClassProvider("A", <<Dep("A")>>, "transient"),
     ClassProvider("A", <<Dep("B")>>, "request"),
     ClassProvider("B", <<Dep("A")>>, "singleton"),
     ClassProvider("B", <<>>, "singleton"),
     FactoryProvider("B", <<Dep("A")>>, "transient", FALSE),
     FactoryProvider("B", <<>>, "singleton", TRUE),
     ExistingProvider("B", "A")}

InitDI ==
    /\ di = NewDI
    /\ log = <<>>
    /\ lastOp = "new"
    /\ router = NewRouter
    /\ lastMatch = NoCall
    /\ cfg = NoConfig
    /\ app = NewApp
    /\ tasks = <<>>

\* container.register(provider) on the root container
DIRegister(provider) ==
    /\ Count(di.regs, "A") + Count(di.regs, "B") < MaxRegs
    /\ di' = containerRegister(di, 1, provider)
    /\ lastOp' = "register"
    /\ UNCHANGED <<log, routerVars, appVars>>

\* container.resolve(token)
DIResolve(c, token) ==
    /\ Len(log) < MaxCalls
    /\ LET r == containerResolve(di, c, token, FALSE, 1)
       IN /\ di' = r.cs
          /\ log' = Append(log, [api |-> "resolve", c |-> c, token |-> token, res |-> r.res])
    /\ lastOp' = "resolve"
    /\ UNCHANGED <<routerVars, appVars>>

\* container.resolveAsync(token): the returned promise adopts what
\* resolveInternal returned, or is rejected with what it threw
DIResolveAsync(c, token) ==
    /\ Len(log) < MaxCalls
    /\ LET r == resolveInternal(di, c, token, FALSE, 1)
       IN /\ di' = r.cs
          /\ log' = Append(log, [api |-> "resolveAsync", c |-> c, token |-> token, res |-> r.res])
    /\ lastOp' = "resolveAsync"
    /\ UNCHANGED <<routerVars, appVars>>

\* a pending promise settles
DISettle(p) ==
    /\ CanSettle(di, p)
    /\ di' = settle(di, p)
    /\ lastOp' = "settle"
    /\ UNCHANGED <<log, routerVars, appVars>>

NextDI ==
    \/ \E provider \in ProviderInputs : DIRegister(provider)
    \/ \E token \in Tokens : DIResolve(1, token)
    \/ \E token \in Tokens : DIResolveAsync(1, token)
    \/ \E p \in 1..Len(di.promises) : DISettle(p)

SpecDI == InitDI /\ [][NextDI]_vars

\* the tokens the provider of t, as the root container sees it, depends on
DepsOf(t) ==
    IF MapHas(di.conts[1].providers, t)
    THEN {di.conts[1].providers[t].deps[i].token : i \in 1..Len(di.conts[1].providers[t].deps)}
    ELSE {}

RECURSIVE ReachableFrom(_, _)
ReachableFrom(ts, n) ==
    IF n = 0 THEN ts
    ELSE ReachableFrom(ts \cup UNION {DepsOf(t) : t \in ts}, n - 1)

\* t depends, directly or transitively, on itself
OnCycle(t) == t \in ReachableFrom(DepsOf(t), Cardinality(Tokens))

\* the tokens of the cycles through t
CycleTokens(t) == {u \in ReachableFrom(DepsOf(t), Cardinality(Tokens)) :
                      t \in ReachableFrom(DepsOf(u), Cardinality(Tokens))}

\* C2: the first resolution made on a container, of a token that depends on
\* itself, fails with CircularDependencyError, and the reported path starts at
\* the token, follows dependency edges and lists every token of the cycle.
CycleAlwaysDetected ==
    (lastOp \in {"resolve", "resolveAsync"} /\ Len(log) = 1 /\ OnCycle(log[1].token)) =>
        LET res == log[1].res
            path == res.err.path
        IN /\ res.k = "throw"
           /\ res.err.name = "CircularDependencyError"
           /\ path[1] = log[1].token
           /\ \A i \in 1..(Len(path) - 1) : path[i + 1] \in DepsOf(path[i])
           /\ \A u \in CycleTokens(log[1].token) : Includes(path, u)

\* the value a call of the log has fulfilled with, if it has
Fulfilled(call) ==
    call.res.k = "val" \/ (call.res.k = "promise" /\ di.promises[call.res.p].state = "fulfilled")

\* C3: an asynchronous singleton factory, registered once and resolved only
\* through resolveAsync, is invoked at most once, and all the calls that have
\* fulfilled did so with the same instance.
AsyncSingletonOnce ==
    \A t \in Tokens :
        (/\ MapHas(di.conts[1].providers, t)
         /\ di.conts[1].providers[t].scope = "singleton"
         /\ di.conts[1].providers[t].kind = "factory"
         /\ di.conts[1].providers[t].async
         /\ Count(di.regs, t) = 1
         /\ \A i \in 1..Len(log) : log[i].api = "resolveAsync") =>
            /\ Count(di.invoked, t) <= 1
            /\ \A i, j \in 1..Len(log) :
                  (log[i].token = t /\ log[j].token = t /\ Fulfilled(log[i]) /\ Fulfilled(log[j]))
                     => ValueOf(di, log[i].res) = ValueOf(di, log[j].res)

(***************************************************************************)
(* Properties of the application                                           *)
(***************************************************************************)
Requests == {i \in 1..Len(tasks) : tasks[i].kind = "request"}

\* the events of the given kinds in the trace of task i, in order
EventsOf(i, kinds) == SelectSeq(tasks[i].trace, LAMBDA ev : ev.e \in kinds)

\* task i has been looked up in the router
Looked(i) == tasks[i].stripped # <<>>

\* the class of the object v
ClsOf(v) == di.instances[v].cls

\* what C4 expects to observe for interceptors ints around handler h
Onion(ints, h) ==
    [k \in 1..(2 * Len(ints) + 1) |->
        IF k <= Len(ints) THEN Event("before", ints[k])
        ELSE IF k = Len(ints) + 1 THEN Event("handler", h)
        ELSE Event("after", ints[2 * Len(ints) + 2 - k])]

\* C4: for a request whose handler ran, with interceptors [A, B] in
\* registration order (the global ones before the route's), the calls observed
\* are A-before, B-before, handler, B-after, A-after.
InterceptorNesting ==
    \A i \in Requests :
        (\E k \in 1..Len(tasks[i].trace) : tasks[i].trace[k].e = "handler") =>
            EventsOf(i, {"before", "handler", "after"})
                = Onion(tasks[i].interceptors, tasks[i].handler)

\* C5: with a global prefix P configured, a request whose URL path is P+R, for
\* a registered route of base path and method path R, is dispatched to that
\* route's handler.
PrefixDispatch ==
    \A i \in Requests : \A c \in tasks[i].seenRouted :
        \A k \in 1..Len(ControllerMetadata(c).routes) :
            LET meta == ControllerMetadata(c).routes[k]
            IN (/\ cfg.prefix # <<>>
                /\ Looked(i)
                /\ tasks[i].method = meta.method
                /\ tasks[i].path = cfg.prefix \o ControllerMetadata(c).path \o meta.path) =>
                   /\ tasks[i].matched
                   /\ app.handlers[tasks[i].handler].cls = c
                   /\ app.handlers[tasks[i].handler].methodName = meta.methodName

\* C6: whatever requests and init calls overlap, on an application whose
\* dependencies all resolve, each module class is instantiated once, each
\* configured global enhancer is installed once, each lifecycle hook is invoked
\* once, and a request is looked up in the router only when the routes of all
\* the controllers are registered.
InitOnce ==
    ~cfg.broken =>
        /\ \A m \in DOMAIN app.news : app.news[m] <= 1
        /\ Len(app.globalGuards) <= Len(Options.guards)
        /\ Len(app.globalInterceptors) <= Len(Options.interceptors)
        /\ Len(app.globalPipes) <= Len(Options.pipes)
        /\ Len(app.globalFilters) <= Len(Options.filters)
        /\ \A key \in DOMAIN app.hookCalls : app.hookCalls[key] <= 1
        /\ \A i \in Requests : Looked(i) => tasks[i].seenRouted = AllControllers

\* C7: once an init() has failed on a container error, no request is ever
\* dispatched to a route handler.
NoTrafficAfterFailedInit ==
    \A i \in Requests : ~tasks[i].afterFail

\* the instances of the request-scoped provider PipeP used for request i
ScopedUsed(i) ==
    {tasks[i].trace[k].x : k \in {n \in 1..Len(tasks[i].trace) :
                                     /\ tasks[i].trace[n].e = "pipe"
                                     /\ ClsOf(tasks[i].trace[n].x) = "PipeP"}}

\* C8: two different requests never use the same instance of a request-scoped
\* provider.
FreshRequestScope ==
    \A i, j \in Requests : i # j => ScopedUsed(i) \cap ScopedUsed(j) = {}

\* the guards of request i are the global guards followed by the route's, and
\* they have been called one after the other in that order, each one only
\* after those before it returned true
GuardOrder(i) ==
    LET t == tasks[i]
        gs == EventsOf(i, {"guardTrue", "guardFalse"})
    IN t.guards # <<>> =>
          /\ \E n \in 0..Len(t.guards) :
                /\ SubSeq(t.guards, n + 1, Len(t.guards)) = app.handlers[t.handler].guards
                /\ \A k \in 1..n : Includes(app.globalGuards, t.guards[k])
          /\ Len(gs) <= Len(t.guards)
          /\ \A k \in 1..Len(gs) : gs[k].x = t.guards[k]
          /\ \A k \in 1..(Len(gs) - 1) : gs[k].e = "guardTrue"
          /\ t.pc = "guards" => Len(gs) = t.gi - 1

\* at the first guard of request i that returns false the request ends: only
\* guards that returned true were called before it, and after it nothing but
\* the exception filters
Aborted(i) ==
    \A k \in 1..Len(tasks[i].trace) :
        tasks[i].trace[k].e = "guardFalse" =>
            /\ \A l \in 1..(k - 1) : tasks[i].trace[l].e = "guardTrue"
            /\ \A l \in (k + 1)..Len(tasks[i].trace) : tasks[i].trace[l].e = "filter"
            /\ tasks[i].pc = "done"

Refused(i) == \E k \in 1..Len(tasks[i].trace) : tasks[i].trace[k].e = "guardFalse"

\* C9 as stated: guards run in order, global ones first, each awaited; at the
\* first one that returns false nothing more is invoked and the response is a
\* 403 error response.
GuardShortCircuit403 ==
    \A i \in Requests :
        /\ GuardOrder(i)
        /\ Aborted(i)
        /\ Refused(i) => tasks[i].response.status = 403

\* C9, amended: guards run in order, global ones first, each awaited; at the
\* first one that returns false nothing more is invoked and the request fails
\* with a 403 HttpException: the response is the 403 error response unless a
\* global exception filter handles the exception and answers itself.
GuardShortCircuit ==
    \A i \in Requests :
        /\ GuardOrder(i)
        /\ Aborted(i)
        /\ Refused(i) =>
              \/ tasks[i].response = [status |-> 403, by |-> "errorToResponse"]
              \/ tasks[i].response.by = "filter"

\* a request with a global and a route guard, refused by the first: the
\* second was not called and the response is the 403 one
GuardShortCircuitWitness ==
    \E i \in Requests :
        /\ Len(tasks[i].guards) >= 2
        /\ tasks[i].trace = <<Event("guardFalse", tasks[i].guards[1])>>
        /\ tasks[i].response = [status |-> 403, by |-> "errorToResponse"]

(***************************************************************************)
(* Containers in a hierarchy: children and request scopes are created,     *)
(* providers are registered on any container, tokens are resolved on any   *)
(* container, pending promises settle.                                     *)
(***************************************************************************)
MaxConts == 3

\* the providers the root container is given
ScopeProviderInputs ==
    {ClassProvider("A", <<DepOptional("B")>>, "singleton"),
     ClassProvider("A", <<>>, "transient"),
     ClassProvider("A", <<>>, "request"),
     FactoryProvider("A", <<>>, "singleton", TRUE),
     FactoryProvider("A", <<>>, "request", TRUE),
     ClassProvider("B", <<>>, "singleton"),
     FactoryProvider("B", <<Dep("A")>>, "singleton", FALSE),
     ExistingProvider("B", "A")}

\* the providers a child container is given
ChildProviderInputs == {ClassProvider("B", <<>>, "singleton")}

Conts == 1..Len(di.conts)

InitScopes ==
    /\ di = NewDI
    /\ log = <<>>
    /\ lastOp = "new"
    /\ router = NewRouter
    /\ lastMatch = NoCall
    /\ cfg = NoConfig
    /\ app = NewApp
    /\ tasks = <<>>

\* parent.createChild()
CreateChild(parent) ==
    /\ Len(di.conts) < MaxConts
    /\ di' = createChild(di, parent)
    /\ lastOp' = "createChild"
    /\ UNCHANGED <<log, routerVars, appVars>>

\* parent.createRequestScope()
CreateRequestScope(parent) ==
    /\ Len(di.conts) < MaxConts
    /\ di' = createRequestScope(di, parent)
    /\ lastOp' = "createRequestScope"
    /\ UNCHANGED <<log, routerVars, appVars>>

\* c.register(provider)
ScopeRegister(c, provider) ==
    /\ Count(di.regs, "A") + Count(di.regs, "B") < MaxRegs
    /\ di' = containerRegister(di, c, provider)
    /\ lastOp' = "register"
    /\ UNCHANGED <<log, routerVars, appVars>>

\* c.resolve(token)
ScopeResolve(c, token) ==
    /\ Len(log) < MaxCalls
    /\ LET logged(r) ==
             /\ di' = r.cs
             /\ log' = Append(log, [api |-> "resolve", c |-> c, token |-> token, res |-> r.res])
       IN logged(containerResolve(di, c, token, FALSE, 1))
    /\ lastOp' = "resolve"
    /\ UNCHANGED <<routerVars, appVars>>

\* c.resolveAsync(token)
ScopeResolveAsync(c, token) ==
    /\ Len(log) < MaxCalls
    /\ LET logged(r) ==
             /\ di' = r.cs
             /\ log' = Append(log, [api |-> "resolveAsync", c |-> c, token |-> token,
                                    res |-> r.res])
       IN logged(resolveInternal(di, c, token, FALSE, 1))
    /\ lastOp' = "resolveAsync"
    /\ UNCHANGED <<routerVars, appVars>>

NextScopes ==
    \/ \E parent \in Conts : CreateChild(parent)
    \/ \E parent \in Conts : CreateRequestScope(parent)
    \/ \E provider \in ScopeProviderInputs : ScopeRegister(1, provider)
    \/ \E c \in Conts \ {1}, provider \in ChildProviderInputs : ScopeRegister(c, provider)
    \/ \E c \in Conts, token \in Tokens : ScopeResolve(c, token)
    \/ \E c \in Conts, token \in Tokens : ScopeResolveAsync(c, token)
    \/ \E p \in 1..Len(di.promises) : DISettle(p)

SpecScopes == InitScopes /\ [][NextScopes]_vars

\* the container whose provider record a call of the log resolved its token with
OwnerOf(call) == getProviderRecord(di.conts, call.c, call.token)

\* two calls of the log went through one provider record, registered once
SameRecord(i, j) ==
    /\ log[i].token = log[j].token
    /\ Count(di.regs, log[i].token) = 1
    /\ OwnerOf(log[i]) # None
    /\ OwnerOf(log[i]) = OwnerOf(log[j])

ScopeOf(call) == di.conts[OwnerOf(call)].providers[call.token].scope

\* C11: all the resolutions of a singleton-scoped token, on the container that
\* holds its provider or on a descendant, yield one instance; two resolutions
\* of a transient-scoped token yield two different instances.
ScopeIdentity ==
    \A i, j \in 1..Len(log) :
        (SameRecord(i, j) /\ Fulfilled(log[i]) /\ Fulfilled(log[j])) =>
            /\ ScopeOf(log[i]) = "singleton" =>
                  ValueOf(di, log[i].res) = ValueOf(di, log[j].res)
            /\ (ScopeOf(log[i]) = "transient" /\ i # j) =>
                  ValueOf(di, log[i].res) # ValueOf(di, log[j].res)

\* a call of the log resolved a request-scoped token whose provider is held by
\* an ancestor of the container the call was made on
ScopedFromParent(call) ==
    /\ OwnerOf(call) # None
    /\ OwnerOf(call) # call.c
    /\ ScopeOf(call) = "request"

\* C12: a request-scoped token registered in a parent resolves to one instance
\* within one request-scope container and to different instances in different
\* ones, and a scoped cache only holds what was resolved on its own container.
RequestScopeIsolation ==
    /\ \A i, j \in 1..Len(log) :
          (/\ SameRecord(i, j)
           /\ ScopedFromParent(log[i])
           /\ ScopedFromParent(log[j])
           /\ Fulfilled(log[i])
           /\ Fulfilled(log[j])) =>
              (log[i].c = log[j].c) = (ValueOf(di, log[i].res) = ValueOf(di, log[j].res))
    /\ \A c \in Conts : \A t \in DOMAIN di.conts[c].scopedInstances :
          \E i \in 1..Len(log) : log[i].c = c

\* the values injected into the object a call returned
InjectedInto(call) ==
    LET v == ValueOf(di, call.res)
    IN IF v > 0 THEN {di.instances[v].args[k] : k \in 1..Len(di.instances[v].args)} ELSE {}

\* C13: what a container yields is determined by its own and its ancestors'
\* registrations only: every dependency injected into an instance it returns
\* is an instance of a token that the container itself can see.
ParentUnaffectedByChild ==
    \A i \in 1..Len(log) :
        Fulfilled(log[i]) =>
            \A a \in InjectedInto(log[i]) :
                a > 0 => containerHas(di, log[i].c, di.instances[a].cls)

\* the tokens the provider that container c finds for t depends on
DepsSeenFrom(c, t) ==
    LET owner == getProviderRecord(di.conts, c, t)
    IN IF owner = None THEN {}
       ELSE {di.conts[owner].providers[t].deps[i].token :
                i \in 1..Len(di.conts[owner].providers[t].deps)}

RECURSIVE GraphFrom(_, _, _)
GraphFrom(c, ts, n) ==
    IF n = 0 THEN ts
    ELSE GraphFrom(c, ts \cup UNION {DepsSeenFrom(c, t) : t \in ts}, n - 1)

\* the dependency graph of t, as container c sees it, is complete and acyclic
AcyclicFrom(c, t) ==
    \A u \in GraphFrom(c, {t}, Cardinality(Tokens)) :
        /\ containerHas(di, c, u)
        /\ u \notin GraphFrom(c, DepsSeenFrom(c, u), Cardinality(Tokens))

\* C14: resolveAsync of a token whose dependency graph is complete and acyclic
\* does not fail, whatever the shape of the providers (class, factory with
\* inject, alias) and wherever the asynchronous factories are in the graph.
ResolveAsyncAwaitsAll ==
    (lastOp = "resolveAsync" /\ AcyclicFrom(log[Len(log)].c, log[Len(log)].token)) =>
        log[Len(log)].res.k # "throw"

-----------------------------------------------------------------------------
\* Lookups: a root container and one child, each token registered at most once
\* in a container before the first lookup, and synchronous resolve with and
\* without {optional: true}.

MaxLookups == 2

LookupProviderInputs ==
    {ClassProvider("A", <<Dep("B")>>, "singleton"),
     ClassProvider("A", <<DepOptional("B")>>, "transient"),
     FactoryProvider("A", <<Dep("B")>>, "singleton", FALSE),
     ClassProvider("B", <<>>, "singleton"),
     FactoryProvider("B", <<>>, "singleton", TRUE)}

InitLookup ==
    /\ di = createChild(NewDI, 1)
    /\ log = <<>>
    /\ lastOp = "new"
    /\ router = NewRouter
    /\ lastMatch = NoCall
    /\ cfg = NoConfig
    /\ app = NewApp
    /\ tasks = <<>>

\* c.register(provider), of a token c has no provider for; the containers are
\* set up before the first lookup
LookupRegister(c, provider) ==
    /\ log = <<>>
    /\ ~MapHas(di.conts[c].providers, provider.provide)
    /\ di' = containerRegister(di, c, provider)
    /\ lastOp' = "register"
    /\ UNCHANGED <<log, routerVars, appVars>>

\* c.resolve(token, {optional})
Lookup(c, token, optional) ==
    /\ Len(log) < MaxLookups
    /\ LET logged(r) ==
             /\ di' = r.cs
             /\ log' = Append(log, [api |-> "resolve", c |-> c, token |-> token,
                                    optional |-> optional, res |-> r.res])
       IN logged(containerResolve(di, c, token, optional, 1))
    /\ lastOp' = "resolve"
    /\ UNCHANGED <<routerVars, appVars>>

NextLookup ==
    \/ \E provider \in LookupProviderInputs : LookupRegister(1, provider)
    \/ \E provider \in ChildProviderInputs : LookupRegister(2, provider)
    \/ \E c \in Conts, token \in Tokens, optional \in BOOLEAN : Lookup(c, token, optional)
    \/ \E p \in 1..Len(di.promises) : DISettle(p)

SpecLookup == InitLookup /\ [][NextLookup]_vars

\* the provider record container c finds for token t
RecordSeenFrom(c, t) == di.conts[getProviderRecord(di.conts, c, t)].providers[t]

\* the first k - 1 constructor dependencies are optional and not registered
OnlyMissingOptionalBefore(c, deps, k) ==
    \A j \in 1..(k - 1) : deps[j].optional /\ ~containerHas(di, c, deps[j].token)

\* C15: resolve of a token that neither the container nor an ancestor has a
\* provider for throws TokenNotFoundError, or returns undefined with
\* {optional: true}; a constructor dependency with no provider is injected as
\* undefined when it is optional and fails the resolution with
\* TokenNotFoundError when it is not.
NotFoundRule ==
    lastOp = "resolve" =>
        LET call == log[Len(log)]
        IN IF ~containerHas(di, call.c, call.token)
           THEN call.res = IF call.optional THEN Val(Undefined)
                           ELSE Throw("TokenNotFoundError", <<call.token>>)
           ELSE RecordSeenFrom(call.c, call.token).kind = "class" =>
                  LET deps == RecordSeenFrom(call.c, call.token).deps
                  IN \A k \in 1..Len(deps) :
                        ~containerHas(di, call.c, deps[k].token) =>
                            IF deps[k].optional
                            THEN call.res.k = "val" =>
                                   di.instances[call.res.v].args[k] = Undefined
                            ELSE OnlyMissingOptionalBefore(call.c, deps, k) =>
                                   call.res = Throw("TokenNotFoundError", <<deps[k].token>>)

\* container c holds an instance for t: a value provider, a resolved singleton
\* record, or an entry of c's own scoped cache
Cached(c, t) ==
    \/ RecordSeenFrom(c, t).kind = "value"
    \/ /\ RecordSeenFrom(c, t).scope = "singleton"
       /\ RecordSeenFrom(c, t).isResolved
       /\ RecordSeenFrom(c, t).instance # Undefined
    \/ /\ RecordSeenFrom(c, t).scope = "request"
       /\ MapHas(di.conts[c].scopedInstances, t)

\* producing t on container c runs an asynchronous factory, for t itself or
\* for a dependency at most n levels down
RECURSIVE NeedsAwait(_, _, _)
NeedsAwait(c, t, n) ==
    /\ n > 0
    /\ containerHas(di, c, t)
    /\ ~Cached(c, t)
    /\ \/ RecordSeenFrom(c, t).kind = "factory" /\ RecordSeenFrom(c, t).async
       \/ \E u \in DepsSeenFrom(c, t) : NeedsAwait(c, u, n - 1)

\* C16: resolve never returns a promise, and it throws ContainerError whenever
\* producing the value of a token with a complete, acyclic dependency graph
\* requires an asynchronous factory, of the token or of a dependency.
SyncResolveThrowsOnAsync ==
    [][\A c \in Conts, token \in Tokens, optional \in BOOLEAN :
          Lookup(c, token, optional) =>
              /\ log'[Len(log')].res.k # "promise"
              /\ (AcyclicFrom(c, token) /\ NeedsAwait(c, token, Cardinality(Tokens) + 1)) =>
                    /\ log'[Len(log')].res.k = "throw"
                    /\ log'[Len(log')].res.err.name = "ContainerError"]_vars

\* resolve threw ContainerError for a class whose constructor dependency is
\* produced by an asynchronous factory
SyncResolveThrowsOnAsyncWitness ==
    /\ lastOp = "resolve"
    /\ log[Len(log)].res.k = "throw"
    /\ log[Len(log)].res.err.name = "ContainerError"
    /\ containerHas(di, log[Len(log)].c, log[Len(log)].token)
    /\ RecordSeenFrom(log[Len(log)].c, log[Len(log)].token).kind = "class"
    /\ NeedsAwait(log[Len(log)].c, "B", 1)

-----------------------------------------------------------------------------
\* Precedence: routes that differ in the kind of one segment (static, regex
\* parameter, plain parameter, wildcard) below a common static segment.

sSeven == <<"7">>
sFortyTwo == <<"4", "2">>
sRegexN == <<":", "n", "(", "\\d", "+", ")">>

PrecedenceRoutes ==
    {"GET"} \X {PathOf(<<sA, sB>>), PathOf(<<sA, sParamX>>), PathOf(<<sA, sRegexN>>),
                PathOf(<<sA, sWildW>>), PathOf(<<sA, sB, sC>>), PathOf(<<sA, sParamX, sC>>)}

PrecedenceRequests ==
    {"GET"} \X {PathOf(<<sA, sB>>), PathOf(<<sA, sSeven>>), PathOf(<<sA, sFortyTwo>>),
                PathOf(<<sA, sC>>), PathOf(<<sA, sB, sC>>), PathOf(<<sA, sSeven, sC>>),
                PathOf(<<sA, sB, sB>>)}

NextPrecedence ==
    \/ \E in \in PrecedenceRoutes : Register(in[1], in[2])
    \/ \E in \in PrecedenceRequests : Match(in[1], in[2])

SpecPrecedence == InitRouter /\ [][NextPrecedence]_vars

\* the place of a segment kind in the order match tries the children in
Rank(type) ==
    CASE type = "static" -> 1
      [] type = "regex" -> 2
      [] type = "param" -> 3
      [] OTHER -> 4

\* template ta comes before tb: at the first level where their segment kinds
\* differ, ta's kind is tried first
RECURSIVE Precedes(_, _)
Precedes(ta, tb) ==
    IF ta = <<>> \/ tb = <<>> THEN FALSE
    ELSE IF Rank(parseSegment(ta[1]).type) # Rank(parseSegment(tb[1]).type)
    THEN Rank(parseSegment(ta[1]).type) < Rank(parseSegment(tb[1]).type)
    ELSE Precedes(Tail(ta), Tail(tb))

\* route i is the candidate of the last request that comes before all others
Best(i) ==
    /\ i \in Candidates(lastMatch.method, lastMatch.path)
    /\ \A j \in Candidates(lastMatch.method, lastMatch.path) \ {i} :
          Precedes(TemplateOf(router.routes[i]), TemplateOf(router.routes[j]))

\* the last request was matched to route i, with route i's bindings
MatchedTo(i) ==
    /\ lastMatch.result.found
    /\ lastMatch.result.handler = i
    /\ LET b == BindingsOf(splitPath(normalizePath(lastMatch.path)), TemplateOf(router.routes[i]))
       IN \A n \in DOMAIN b : MapHas(lastMatch.result.params, n) /\ lastMatch.result.params[n] = b[n]

\* C17: among the registered routes a request path instantiates, match selects
\* the one that comes first in the order static, regex parameter, plain
\* parameter, wildcard, decided at the first level where they differ, and
\* backtracks out of a branch that leads to no handler.
PrecedenceOrder ==
    (lastMatch.called /\ DistinctRoutes) =>
        \A i \in 1..Len(router.routes) : Best(i) => MatchedTo(i)

\* route i has a regex-constrained parameter
HasRegex(i) ==
    \E k \in 1..Len(TemplateOf(router.routes[i])) :
        parseSegment(TemplateOf(router.routes[i])[k]).type = "regex"

\* C18: a route with a regex-constrained parameter is matched by the paths
\* that satisfy the pattern, ahead of any less specific route for the same
\* position, and by no other path; a path that fails the pattern falls
\* through to the less specific route.
RegexConstraint ==
    (lastMatch.called /\ DistinctRoutes) =>
        \A i \in 1..Len(router.routes) :
            HasRegex(i) =>
                /\ Best(i) => MatchedTo(i)
                /\ i \notin Candidates(lastMatch.method, lastMatch.path) =>
                      /\ lastMatch.result.handler # i
                      /\ \A j \in 1..Len(router.routes) : Best(j) => MatchedTo(j)

\* route i ends in a wildcard
EndsInWildcard(i) ==
    parseSegment(TemplateOf(router.routes[i])[Len(TemplateOf(router.routes[i]))]).type = "wildcard"

\* C19: a request that reaches a wildcard route is matched to it with all the
\* remaining segments, one or more, joined by '/', bound to the wildcard's name.
WildcardCapture ==
    (lastMatch.called /\ DistinctRoutes) =>
        \A i \in 1..Len(router.routes) :
            (EndsInWildcard(i) /\ Best(i)) => MatchedTo(i)

-----------------------------------------------------------------------------
\* the status of the exception the stages of request task t raised, 0 if none
\* (or if t was not routed at all):
\* no route (404), a guard that refused (403), a parameter pipe that could
\* not be resolved (a non-HTTP error, 500)
ErrorOf(t) ==
    IF t.stripped = <<>> THEN 0
    ELSE IF ~t.matched THEN 404
    ELSE IF \E k \in 1..Len(t.trace) : t.trace[k].e = "guardFalse" THEN 403
    ELSE IF \A k \in 1..Len(t.trace) : t.trace[k].e # "handler" THEN 500
    ELSE 0

\* request i is past the lazy init: its path has been stripped and routed
InStages(i) == tasks[i].stripped # <<>>

\* request i either awaits a guard or has ended with a response, and only a
\* request that has ended has one
OneResponse(i) ==
    /\ InStages(i) => tasks[i].pc \in {"guards", "done"}
    /\ tasks[i].pc = "rejected" => ~InStages(i) /\ tasks[i].trace = <<>>
    /\ tasks[i].pc = "guards" => tasks[i].gi \in 1..Len(tasks[i].guards)
    /\ (tasks[i].pc = "done") = (tasks[i].response # NoResponse)
    /\ (tasks[i].pc = "done" /\ ErrorOf(tasks[i]) = 0) =>
          tasks[i].response = [status |-> 200, by |-> "handler"]

-----------------------------------------------------------------------------
\* the filters request task t offered its exception to, in order
FiltersOffered(t) ==
    LET evs == SelectSeq(t.trace, LAMBDA ev : ev.e = "filter")
    IN [k \in 1..Len(evs) |-> evs[k].x]

\* task i ends with an exception in this step
EndsInError(i) ==
    /\ tasks'[i].kind = "request"
    /\ tasks'[i].pc = "done"
    /\ i > Len(tasks) \/ tasks[i].pc # "done"
    /\ ErrorOf(tasks'[i]) # 0

UnregisteredEnhancersConstructed ==
    \A i \in Requests :
        (tasks[i].pc = "done" /\ tasks[i].matched /\ ~Refused(i)) =>
            /\ \E k \in 1..Len(tasks[i].trace) : tasks[i].trace[k].e = "handler"
            /\ tasks[i].response = [status |-> 200, by |-> "handler"]

-----------------------------------------------------------------------------
\* Applications with CORS enabled, without and with a global exception
\* filter, and GET and OPTIONS requests for a routed and an unrouted path.

CorsConfigs ==
    {Config(<<>>, FALSE, FALSE, FALSE, FALSE, TRUE),
     Config(<<>>, FALSE, FALSE, TRUE, FALSE, TRUE)}

CorsRequests == {"GET", "OPTIONS"} \X {pUsers, pApi \o pUsers}

InitCors ==
    /\ cfg \in CorsConfigs
    /\ app = NewApp
    /\ tasks = <<>>
    /\ di = NewDI
    /\ log = <<>>
    /\ lastOp = "new"
    /\ router = NewRouter
    /\ lastMatch = NoCall

NextCors ==
    \/ \E in \in CorsRequests, fo \in FilterChoices : HandleRequest(in[1], in[2], fo)
    \/ \E fo \in FilterChoices : CallInit(fo)
    \/ \E i \in 1..Len(tasks), fo \in FilterChoices : HookReturns(i, fo)
    \/ \E i \in 1..Len(tasks), canActivate \in BOOLEAN, fo \in FilterChoices :
          GuardReturns(i, canActivate, fo)

SpecCors == InitCors /\ [][NextCors]_vars

\* C23: with CORS enabled the response of every request, error responses
\* included, carries the CORS headers.
CorsOnEveryResponse ==
    Options.cors => \A i \in Requests : tasks[i].pc = "done" => tasks[i].cors

\* C24: with CORS enabled an OPTIONS request is answered with the empty 204
\* response carrying the CORS headers, and nothing of the pipeline runs for
\* it: no route lookup, guard, interceptor, pipe or handler.
PreflightShortCircuit ==
    Options.cors =>
        \A i \in Requests :
            tasks[i].method = "OPTIONS" =>
                /\ tasks[i].pc # "guards"
                /\ tasks[i].trace = <<>>
                /\ ~InStages(i)
                /\ ~tasks[i].matched
                /\ tasks[i].pc = "done" =>
                      /\ tasks[i].response = [status |-> 204, by |-> "cors"]
                      /\ tasks[i].cors

\* an OPTIONS request for a routed path was answered 204 with the CORS headers
PreflightShortCircuitWitness ==
    \E i \in Requests :
        /\ Options.cors
        /\ tasks[i].method = "OPTIONS"
        /\ tasks[i].path = pUsers
        /\ app.isInitialized
        /\ tasks[i].pc = "done"
        /\ tasks[i].response = [status |-> 204, by |-> "cors"]
        /\ tasks[i].cors

-----------------------------------------------------------------------------
\* Response materialization: resultToResponse applied to handler results of
\* each kind, for routes with and without a status code and extra headers.

\* { ...a, ...b }: the keys of b override those of a
Spread(a, b) == [k \in (DOMAIN a) \cup (DOMAIN b) |-> IF k \in DOMAIN b THEN b[k] ELSE a[k]]

\* new Response(body, { status, headers })
Response(body, status, headers) == [body |-> body, status |-> status, headers |-> headers]

\* the handler results that are no Response carry this one in their record
NotAResponse == Response([enc |-> "none", v |-> Undefined], 0, EmptyMap)

\* resultToResponse(result, handler); a result is [kind, v, response], of kind
\* "Response" (the object is in response), "null", "string" or "object"
resultToResponse(result, metadata) ==
    IF result.kind = "Response" THEN result.response
    ELSE LET statusCode == IF metadata.statusCode = Undefined THEN 200 ELSE metadata.statusCode
             headers == Spread(MapSet(EmptyMap, "Content-Type", "application/json"),
                               metadata.headers)
         IN IF result.kind = "null"
            THEN Response([enc |-> "none", v |-> Undefined],
                          IF statusCode = 200 THEN 204 ELSE statusCode, headers)
            ELSE IF result.kind = "string"
            THEN Response([enc |-> "text", v |-> result.v], statusCode,
                          MapSet(headers, "Content-Type", "text/plain"))
            ELSE Response([enc |-> "json", v |-> result.v], statusCode, headers)

HandlerResults ==
    {[kind |-> "Response", v |-> Undefined,
      response |-> Response([enc |-> "text", v |-> 1], 302, EmptyMap)],
     [kind |-> "null", v |-> Undefined, response |-> NotAResponse],
     [kind |-> "string", v |-> 1, response |-> NotAResponse],
     [kind |-> "object", v |-> 1, response |-> NotAResponse]}

\* @HttpCode and @Header metadata of the route
RouteStatusCodes == {Undefined, 200, 201}

RouteHeaders ==
    {EmptyMap,
     MapSet(EmptyMap, "X-Frame-Options", "DENY"),
     MapSet(EmptyMap, "Content-Type", "text/html"),
     MapSet(MapSet(EmptyMap, "Content-Type", "text/html"), "X-Frame-Options", "DENY")}

InitResponse ==
    /\ log = <<>>
    /\ lastOp = "new"
    /\ di = NewDI
    /\ router = NewRouter
    /\ lastMatch = NoCall
    /\ cfg = NoConfig
    /\ app = NewApp
    /\ tasks = <<>>

\* the handler of a route returned `result`
Materialize(result, statusCode, headers) ==
    /\ Len(log) < MaxCalls
    /\ log' = Append(log, [result |-> result,
                           metadata |-> [statusCode |-> statusCode, headers |-> headers],
                           response |-> resultToResponse(result, [statusCode |-> statusCode,
                                                                  headers |-> headers])])
    /\ lastOp' = "resultToResponse"
    /\ UNCHANGED <<di, routerVars, appVars>>

NextResponse ==
    \E result \in HandlerResults, statusCode \in RouteStatusCodes, headers \in RouteHeaders :
        Materialize(result, statusCode, headers)

SpecResponse == InitResponse /\ [][NextResponse]_vars

\* the status the route is configured with
ConfiguredStatus(metadata) ==
    IF metadata.statusCode = Undefined THEN 200 ELSE metadata.statusCode

\* C25: a Response result is returned unchanged; otherwise the status is the
\* route's (default 200; 204 for a null result under the default status), a
\* null result has no body, a string result a text/plain body, any other a
\* JSON application/json body, and every configured extra header is on the
\* response with its configured value.
ResponseMaterialized ==
    \A i \in 1..Len(log) :
        LET result == log[i].result
            metadata == log[i].metadata
            response == log[i].response
        IN IF result.kind = "Response" THEN response = result.response
           ELSE /\ response.status =
                      IF result.kind = "null" /\ ConfiguredStatus(metadata) = 200 THEN 204
                      ELSE ConfiguredStatus(metadata)
                /\ result.kind = "null" => response.body.enc = "none"
                /\ result.kind = "string" =>
                      /\ response.body = [enc |-> "text", v |-> result.v]
                      /\ ~MapHas(metadata.headers, "Content-Type") =>
                            response.headers["Content-Type"] = "text/plain"
                /\ result.kind = "object" =>
                      /\ response.body = [enc |-> "json", v |-> result.v]
                      /\ ~MapHas(metadata.headers, "Content-Type") =>
                            response.headers["Content-Type"] = "application/json"
                /\ \A h \in DOMAIN metadata.headers :
                      MapHas(response.headers, h) /\ response.headers[h] = metadata.headers[h]

-----------------------------------------------------------------------------
\* C26: match returns a handler only for a path that instantiates, segment by
\* segment, the template the handler was registered under for the request's
\* method; for a purely static template the segments are equal.
RouterSound ==
    (lastMatch.called /\ lastMatch.result.found) =>
        LET route == router.routes[lastMatch.result.handler]
        IN /\ route.method \in {lastMatch.method, "ALL"}
           /\ Instantiates(splitPath(normalizePath(lastMatch.path)), TemplateOf(route))

-----------------------------------------------------------------------------
\* The interceptor chain of one request: interceptors 1..n, the n-th entered
\* first, where interceptor k calls next.handle() calls[k] times, one call
\* after the other.  A run is [chainIndex, trace].

MaxInterceptors == 2

RECURSIVE handle(_, _)
RECURSIVE HandleTimes(_, _, _)

\* the interceptor's intercept(context, next): it records its entry, calls
\* next.handle() `times` more times and records its exit
HandleTimes(run, calls, times) ==
    IF times = 0 THEN run
    ELSE HandleTimes(handle(run, calls), calls, times - 1)

\* FlareoneCallHandler.handle(): handlerFn is buildChain, which reads and
\* decrements the chainIndex all the call handlers of the request share
handle(run, calls) ==
    IF run.chainIndex < 1
    THEN [run EXCEPT !.trace = Append(@, Event("handler", 0))]
    ELSE LET interceptor == run.chainIndex
             entered == [chainIndex |-> run.chainIndex - 1,
                         trace |-> Append(run.trace, Event("before", interceptor))]
             left(r) == [r EXCEPT !.trace = Append(@, Event("after", interceptor))]
         IN left(HandleTimes(entered, calls, calls[interceptor]))

\* executePipeline: chainIndex = interceptors.length - 1; await buildChain()
runChain(calls) == handle([chainIndex |-> Len(calls), trace |-> <<>>], calls).trace

InitChain ==
    /\ log = <<>>
    /\ lastOp = "new"
    /\ di = NewDI
    /\ router = NewRouter
    /\ lastMatch = NoCall
    /\ cfg = NoConfig
    /\ app = NewApp
    /\ tasks = <<>>

\* a request goes through the interceptor stage
RunInterceptors(calls) ==
    /\ Len(log) < MaxCalls
    /\ log' = Append(log, [calls |-> calls, trace |-> runChain(calls)])
    /\ lastOp' = "buildChain"
    /\ UNCHANGED <<di, routerVars, appVars>>

NextChain ==
    \E n \in 1..MaxInterceptors : \E calls \in [1..n -> 0..2] : RunInterceptors(calls)

SpecChain == InitChain /\ [][NextChain]_vars

\* what a call of next.handle() that continues with interceptor k (the
\* handler for k = 0) runs when every handle() denotes a fixed continuation
RECURSIVE Continuation(_, _)
RECURSIVE Repeated(_, _)
Repeated(seq, times) == IF times = 0 THEN <<>> ELSE seq \o Repeated(seq, times - 1)

Continuation(k, calls) ==
    IF k < 1 THEN <<Event("handler", 0)>>
    ELSE <<Event("before", k)>> \o Repeated(Continuation(k - 1, calls), calls[k])
                                \o <<Event("after", k)>>

\* C27: every next.handle() of an interceptor runs the same remaining inner
\* chain, however often it is invoked, and the handler is not executed when
\* an interceptor never invokes it.
FixedContinuation ==
    \A i \in 1..Len(log) : log[i].trace = Continuation(Len(log[i].calls), log[i].calls)

-----------------------------------------------------------------------------
\* Resolutions that fail and resolutions that are pending, on one container:
\* providers with missing dependencies, with cycles through singleton,
\* request-scoped and transient providers, and an asynchronous factory.

StackProviderInputs ==
    {ClassProvider("A", <<Dep("B")>>, "singleton"),
     ClassProvider("A", <<Dep("A")>>, "singleton"),
     ClassProvider("A", <<Dep("B")>>, "request"),
     ClassProvider("A", <<Dep("A")>>, "transient"),
     ClassProvider("B", <<Dep("A")>>, "singleton"),
     ClassProvider("B", <<>>, "singleton"),
     FactoryProvider("B", <<>>, "singleton", TRUE)}

\* the providers are registered before the first resolution
StackRegister(provider) ==
    /\ log = <<>>
    /\ DIRegister(provider)

NextStack ==
    \/ \E provider \in StackProviderInputs : StackRegister(provider)
    \/ \E token \in Tokens : DIResolve(1, token)
    \/ \E token \in Tokens : DIResolveAsync(1, token)
    \/ \E p \in 1..Len(di.promises) : DISettle(p)

SpecStack == InitDI /\ [][NextStack]_vars

\* no resolution is in progress on any container
StacksEmpty(cs) == \A c \in 1..Len(cs.conts) : cs.conts[c].resolutionStack = <<>>

\* the providers reachable from t contain a dependency cycle
ReachesCycle(t) == \E u \in ReachableFrom({t}, Cardinality(Tokens)) : OnCycle(u)

\* the call a step has appended to the log failed with CircularDependencyError
\* although no cycle is reachable from its token
SpuriousCycle ==
    LET call == log'[Len(log')]
    IN /\ call.res.k = "throw"
       /\ call.res.err.name = "CircularDependencyError"
       /\ ~ReachesCycle(call.token)

\* C28: every resolve and resolveAsync, whether it returns or throws, leaves
\* the resolution stack as it found it, empty; so a failed resolution never
\* makes a later resolution of an acyclic token fail with
\* CircularDependencyError.
StackRestored ==
    [][lastOp' \in {"resolve", "resolveAsync"} =>
          /\ StacksEmpty(di)
          /\ StacksEmpty(di')
          /\ ~SpuriousCycle]_vars

\* a resolution failed on a detected cycle, and a later one succeeded
StackRestoredWitness ==
    \E i, j \in 1..Len(log) :
        /\ i < j
        /\ log[i].res.k = "throw"
        /\ log[i].res.err.name = "CircularDependencyError"
        /\ log[j].res.k = "val"
        /\ StacksEmpty(di)

\* a promise some resolution returned has not settled: control is at an await
Awaiting(cs) == \E p \in 1..Len(cs.promises) : cs.promises[p].state = "pending"

\* C29: the resolution stack is empty whenever a resolveAsync is suspended at
\* an await, so a resolveAsync made on the same container in the meantime
\* never fails with a spurious CircularDependencyError.
StackEmptyAtAwait ==
    [][/\ Awaiting(di') => StacksEmpty(di')
       /\ (lastOp' = "resolveAsync" /\ Awaiting(di)) => ~SpuriousCycle]_vars

\* a second resolveAsync was made while the first was still suspended
StackEmptyAtAwaitWitness ==
    /\ Len(log) >= 2
    /\ log[1].api = "resolveAsync"
    /\ log[2].api = "resolveAsync"
    /\ log[1].res.k = "promise"
    /\ di.promises[log[1].res.p].state = "pending"
    /\ log[2].res.k = "promise"
    /\ StacksEmpty(di)

-----------------------------------------------------------------------------
\* the nodes stored in the children map of node n
StaticChildren(n) == {router.nodes[n].children[k] : k \in DOMAIN router.nodes[n].children}

\* C30: after every insertion the tree is in no-ambiguous-prefix form: every
\* static child is stored under the first character of its own non-empty
\* segment, so no two static children of a node share a first character, and
\* a node has at most one parameter child and at most one wildcard child.
NoAmbiguousPrefix ==
    \A n \in 1..Len(router.nodes) :
        LET node == router.nodes[n]
        IN /\ \A k \in DOMAIN node.children :
                 /\ router.nodes[node.children[k]].type = "static"
                 /\ router.nodes[node.children[k]].segment # <<>>
                 /\ router.nodes[node.children[k]].segment[1] = k
           /\ \A c, d \in StaticChildren(n) :
                 router.nodes[c].segment[1] = router.nodes[d].segment[1] => c = d
           /\ node.paramChild # None => router.nodes[node.paramChild].type \in {"param", "regex"}
           /\ node.wildcardChild # None => router.nodes[node.wildcardChild].type = "wildcard"

\* an insertion has split a static node: the common prefix has two static
\* children, and some node has a parameter child
NoAmbiguousPrefixWitness ==
    /\ ~lastMatch.called
    /\ \E n \in 2..Len(router.nodes) : Cardinality(StaticChildren(n)) >= 2
    /\ \E n \in 1..Len(router.nodes) : router.nodes[n].paramChild # None

-----------------------------------------------------------------------------
\* The arguments of one handler call.  A value is the name of the source it
\* was read from followed by the pipes it went through; a parameter is
\* [index, type, pipes]; the call in progress is the one entry of log:
\* args maps each declared position to [value, next], next being the pipe
\* of `pipes` its chain awaits.

MaxArgs == 2

ParamTypes == <<"param", "body", "query">>

\* pipe.transform(value, metadata), for a pipe that is known by its name
transform(pipe, value) == Append(value, pipe)

\* resolveParameters, one parameter: the value read from the context, then
\* its own pipes in turn
RECURSIVE ParamValue(_, _, _)
ParamValue(value, pipes, i) ==
    IF i > Len(pipes) THEN value
    ELSE ParamValue(transform(pipes[i], value), pipes, i + 1)

\* resolveParameters: args[param.index] = value for each parameter in turn
RECURSIVE resolveArgs(_, _, _)
resolveArgs(params, i, args) ==
    IF i > Len(params) THEN args
    ELSE resolveArgs(params, i + 1,
                     MapSet(args, params[i].index,
                            ParamValue(<<params[i].type>>, params[i].pipes, 1)))

\* getPipes with the two lists exchanged
getPipesMethodFirst(classPipes, methodPipes) == methodPipes \o classPipes

\* getPipes: [...classPipes, ...methodPipes]
getPipes(classPipes, methodPipes) == classPipes \o methodPipes

\* executeHandler: pipes = [...this.globalPipes, ...handler.pipes]
handlerPipes(globalPipes, routePipes) == globalPipes \o routePipes

\* the parameter lists getParameterDecorators returns: one entry per
\* decorated position, in any order
RECURSIVE ParamLists(_)
ParamLists(indices) ==
    IF indices = {} THEN {<<>>}
    ELSE {<<>>} \cup
         UNION {{<<[index |-> k, type |-> ParamTypes[k], pipes |-> pp]>> \o rest :
                    pp \in {<<>>, <<"PP">>}, rest \in ParamLists(indices \ {k})} :
                k \in indices}

InitArgs ==
    /\ log = <<>>
    /\ lastOp = "new"
    /\ di = NewDI
    /\ router = NewRouter
    /\ lastMatch = NoCall
    /\ cfg = NoConfig
    /\ app = NewApp
    /\ tasks = <<>>

\* executeHandler up to Promise.all: the parameters are resolved, and the
\* chain of every argument is started
ExecuteHandler(params, globalPipes, classPipes, methodPipes) ==
    /\ log = <<>>
    /\ LET args == resolveArgs(params, 1, EmptyMap)
       IN log' = <<[params |-> params,
                    globalPipes |-> globalPipes,
                    classPipes |-> classPipes,
                    methodPipes |-> methodPipes,
                    pipes |-> handlerPipes(globalPipes, getPipes(classPipes, methodPipes)),
                    args |-> [k \in DOMAIN args |-> [value |-> args[k], next |-> 1]],
                    applied |-> <<>>]>>
    /\ lastOp' = "executeHandler"
    /\ UNCHANGED <<di, routerVars, appVars>>

\* the transform the chain of argument k awaits settles
TransformSettles(k) ==
    /\ Len(log) = 1
    /\ k \in DOMAIN log[1].args
    /\ log[1].args[k].next <= Len(log[1].pipes)
    /\ log' = [log EXCEPT ![1].args[k] =
                  [value |-> transform(log[1].pipes[@.next], @.value), next |-> @.next + 1]]
    /\ lastOp' = "transform"
    /\ UNCHANGED <<di, routerVars, appVars>>

\* the positions of the array method.apply receives
Positions(args) ==
    IF DOMAIN args = {} THEN {}
    ELSE 1..(CHOOSE m \in DOMAIN args : \A k \in DOMAIN args : k <= m)

\* Promise.all has fulfilled: method.apply(controller, transformedArgs),
\* an undecorated position being undefined
MethodApply ==
    /\ Len(log) = 1
    /\ log[1].applied = <<>>
    /\ \A k \in DOMAIN log[1].args : log[1].args[k].next > Len(log[1].pipes)
    /\ log' = [log EXCEPT ![1].applied =
                  <<[k \in Positions(log[1].args) |->
                        IF k \in DOMAIN log[1].args THEN log[1].args[k].value ELSE <<>>]>>]
    /\ lastOp' = "apply"
    /\ UNCHANGED <<di, routerVars, appVars>>

NextArgs ==
    \/ \E params \in ParamLists(1..MaxArgs) :
          \E globalPipes \in {<<>>, <<"GP">>} :
             \E classPipes \in {<<>>, <<"CP">>} :
                \E methodPipes \in {<<>>, <<"MP">>} :
                   ExecuteHandler(params, globalPipes, classPipes, methodPipes)
    \/ \E k \in 1..(MaxArgs + 1) : TransformSettles(k)
    \/ MethodApply

SpecArgs == InitArgs /\ [][NextArgs]_vars

\* the value of parameter p after all its pipes
FullyPiped(call, p) ==
    <<p.type>> \o p.pipes \o call.globalPipes \o call.classPipes \o call.methodPipes

IsPrefix(s, t) == Len(s) <= Len(t) /\ SubSeq(t, 1, Len(s)) = s

\* C31: every argument goes through its per-parameter pipes, then the global
\* pipes, then the class-level and the method-level pipes, each pipe taking
\* the previous one's output; the method is invoked once, after the chains of
\* all arguments have ended, with each transformed value at its declared
\* position.
PipeOrder ==
    \A c \in 1..Len(log) :
        LET call == log[c]
        IN /\ \A i \in 1..Len(call.params) :
                 LET p == call.params[i]
                 IN /\ p.index \in DOMAIN call.args
                    /\ IsPrefix(call.args[p.index].value, FullyPiped(call, p))
                    /\ Len(call.args[p.index].value) >= 1 + Len(p.pipes)
                    /\ call.applied # <<>> =>
                          /\ p.index \in DOMAIN call.applied[1]
                          /\ call.applied[1][p.index] = FullyPiped(call, p)
           /\ Len(call.applied) <= 1

\* the method was called with two arguments that each went through a pipe of
\* every kind
PipeOrderWitness ==
    /\ Len(log) = 1
    /\ log[1].applied # <<>>
    /\ Len(log[1].params) = 2
    /\ \A i \in 1..2 : log[1].params[i].pipes # <<>>
    /\ Len(log[1].pipes) = 3

-----------------------------------------------------------------------------
\* processModule over module import graphs.  A graph gives every module
\* class its list of imports; an import is the class itself or a
\* dynamic-module descriptor {module, providers} (dynamic = TRUE), whose one
\* provider is named after the importing module.  Every module declares one
\* provider and one controller of its own.  An import that is a promise is
\* awaited and then processed by the same call, so it is not told apart.

Modules == {"M1", "M2", "M3"}

RootModule == "M1"

Import(m, dynamic) == [module |-> m, dynamic |-> dynamic]

\* the import lists a module may declare: one import, plain or dynamic, or
\* two plain imports of two classes
ImportLists ==
    {<<>>} \cup {<<Import(m, d)>> : m \in Modules, d \in BOOLEAN}
           \cup {l \in {<<Import(m, FALSE), Import(n, FALSE)>> : m \in Modules, n \in Modules} :
                    l[1].module # l[2].module}

StaticProvider(m) == [kind |-> "static", of |-> m]

DynamicProvider(importer) == [kind |-> "dynamic", of |-> importer]

RECURSIVE processModule(_, _, _, _)
RECURSIVE ProcessImports(_, _, _, _)

\* for (const importedModule of metadata.imports ?? []) await processModule(...)
ProcessImports(st, graph, m, i) ==
    IF i > Len(graph[m]) THEN st
    ELSE ProcessImports(processModule(st, graph, graph[m][i], m), graph, m, i + 1)

\* processModule(moduleClass), moduleClass being imported by `importer`;
\* st = [moduleInstances, registered, trace]
processModule(st, graph, moduleClass, importer) ==
    LET module == moduleClass.module
        dynamicProviders == IF moduleClass.dynamic THEN {DynamicProvider(importer)} ELSE {}
    IN IF module \in st.moduleInstances THEN st
       ELSE LET allProviders == {StaticProvider(module)} \cup dynamicProviders
                entered == [moduleInstances |-> st.moduleInstances \cup {module},
                            registered |-> st.registered \cup allProviders,
                            trace |-> st.trace \o <<Event("new", module),
                                                    Event("providers", module)>>]
                controllers(s) == [s EXCEPT !.trace = Append(@, Event("controller", module))]
            IN controllers(ProcessImports(entered, graph, module, 1))

InitModules ==
    /\ log = <<>>
    /\ lastOp = "new"
    /\ di = NewDI
    /\ router = NewRouter
    /\ lastMatch = NoCall
    /\ cfg = NoConfig
    /\ app = NewApp
    /\ tasks = <<>>

\* init() of an application whose module classes import one another as in graph
ProcessModules(graph) ==
    /\ log = <<>>
    /\ log' = <<[graph |-> graph,
                 result |-> processModule([moduleInstances |-> {}, registered |-> {},
                                           trace |-> <<>>],
                                          graph, Import(RootModule, FALSE), RootModule)]>>
    /\ lastOp' = "init"
    /\ UNCHANGED <<di, routerVars, appVars>>

NextModules == \E graph \in [Modules -> ImportLists] : ProcessModules(graph)

SpecModules == InitModules /\ [][NextModules]_vars

\* the modules m imports, directly or through other modules
ImportsOf(graph, m) == {graph[m][i].module : i \in 1..Len(graph[m])}

RECURSIVE ImportClosure(_, _, _)
ImportClosure(graph, ms, n) ==
    IF n = 0 THEN ms
    ELSE ImportClosure(graph, ms \cup UNION {ImportsOf(graph, u) : u \in ms}, n - 1)

Imported(graph, m) == ImportClosure(graph, ImportsOf(graph, m), Cardinality(Modules))

\* C32: init ends for every import graph, cyclic ones included, with each
\* module class instantiated at most once, and when the controllers of a
\* module are instantiated the providers of every module it imports, directly
\* or transitively, have been registered.
ImportsBeforeControllers ==
    \A c \in 1..Len(log) :
        LET trace == log[c].result.trace
        IN /\ \A i, j \in 1..Len(trace) :
                 (trace[i].e = "new" /\ trace[j] = trace[i]) => i = j
           /\ \A j \in 1..Len(trace) :
                 trace[j].e = "controller" =>
                    \A u \in Imported(log[c].graph, trace[j].x) :
                       \E i \in 1..(j - 1) : trace[i] = Event("providers", u)

\* C34: after init every provider declared by a reachable module, in its
\* metadata or in a dynamic-module descriptor that imports it, is registered
\* in the container.
AllProvidersRegistered ==
    \A c \in 1..Len(log) :
        LET graph == log[c].graph
            reachable == {RootModule} \cup Imported(graph, RootModule)
        IN /\ \A m \in reachable : StaticProvider(m) \in log[c].result.registered
           /\ \A m \in reachable : \A i \in 1..Len(graph[m]) :
                 graph[m][i].dynamic => DynamicProvider(m) \in log[c].result.registered

-----------------------------------------------------------------------------
\* Initialization on its own: init() is called, possibly again while or after
\* an earlier call runs, on applications whose module and controller classes
\* all define both lifecycle hooks.

InitConfigs ==
    {WithHooks(NoConfig),
     WithHooks(Config(<<>>, FALSE, TRUE, FALSE, FALSE, FALSE))}

InitInit ==
    /\ cfg \in InitConfigs
    /\ app = NewApp
    /\ tasks = <<>>
    /\ di = NewDI
    /\ log = <<>>
    /\ lastOp = "new"
    /\ router = NewRouter
    /\ lastMatch = NoCall

NextInit ==
    \/ \E fo \in FilterChoices : CallInit(fo)
    \/ \E i \in 1..Len(tasks), fo \in FilterChoices : ResumeModules(i, fo)
    \/ \E i \in 1..Len(tasks), fo \in FilterChoices : HookReturns(i, fo)
    \/ \E p \in 1..Len(di.promises) : PromiseSettles(p)

SpecInit == InitInit /\ [][NextInit]_vars

\* the hooks of the instances the application holds
AllHooks(a) ==
    {[cls |-> cls, hook |-> hook] :
        cls \in ClassesOf(a.moduleInstances) \cup ClassesOf(a.controllerInstances),
        hook \in BothHooks} 

HookOf(h) == [cls |-> h.cls, hook |-> h.hook]

\* the hooks call t has invoked come in the order of init
HooksInOrder(t) ==
    \A j, k \in 1..Len(t.hooked) :
        j < k =>
            /\ ~(t.hooked[j].hook = "onApplicationBootstrap" /\ t.hooked[k].hook = "onModuleInit")
            /\ ~(/\ t.hooked[j].hook = t.hooked[k].hook
                 /\ t.hooked[j].cls \in AllControllers
                 /\ t.hooked[k].cls \notin AllControllers)

\* C33: within one init call the routes of all controllers are registered
\* before any hook runs, the onModuleInit hooks (modules, then controllers)
\* come before the first onApplicationBootstrap hook, one at a time, and the
\* call marks the application initialized only after its last hook returned;
\* an init called after that changes nothing.
InitOrder ==
    [][\A i \in 1..Len(tasks') :
          (i > Len(tasks) \/ tasks'[i] # tasks[i]) =>
              LET t == tasks'[i]
              IN /\ \A k \in 1..Len(t.hooked) : t.hooked[k].controllers \subseteq t.hooked[k].routed
                 /\ HooksInOrder(t)
                 /\ \A k \in 1..Len(t.hooked) :
                       t.hooked[k].hook = "onApplicationBootstrap" =>
                          \A h \in AllHooks(app') :
                             (h.hook = "onModuleInit" /\ HooksOf(h.cls) # {}) =>
                                \E j \in 1..(k - 1) : HookOf(t.hooked[j]) = h
                 /\ (app'.isInitialized /\ ~app.isInitialized) =>
                       /\ t.pc # "hook"
                       /\ \A h \in AllHooks(app') : \E k \in 1..Len(t.hooked) : HookOf(t.hooked[k]) = h
                 /\ (app.isInitialized /\ i > Len(tasks) /\ t.kind = "init") =>
                       /\ t.pc = "done"
                       /\ t.hooked = <<>>
                       /\ app' = app
                       /\ di' = di
                       /\ router' = router]_vars

-----------------------------------------------------------------------------
\* C35: registering a provider for a token that already has one replaces it:
\* the resolve that follows register(p2) yields what p2 produces, not an
\* instance an earlier provider of the token built and the container cached.
LastWriteWins ==
    [][\A c \in 1..Len(di.conts) : \A t \in Tokens :
          (/\ lastOp' = "register"
           /\ MapHas(di.conts[c].providers, t)
           /\ di'.conts[c].providers[t] # di.conts[c].providers[t]) =>
              LET r == containerResolve(di', c, t, FALSE, 1)
              IN r.res.k = "val" =>
                    ~(r.res.v \in 1..Len(di.instances) /\ di.instances[r.res.v].cls = t)]_vars


-----------------------------------------------------------------------------
\* clear() and close(): a container on its own that holds value, class,
\* request-scoped, alias and asynchronous providers is resolved from and
\* cleared, or an application is initialized and closed.

ClearProviderInputs ==
    {ValueProvider("A"),
     ClassProvider("A", <<>>, "singleton"),
     ClassProvider("B", <<Dep("A")>>, "singleton"),
     ClassProvider("B", <<>>, "request"),
     FactoryProvider("B", <<>>, "singleton", TRUE),
     ExistingProvider("B", "A")}

CloseConfigs == InitConfigs \cup {NoConfig}

InitClose ==
    /\ cfg \in CloseConfigs
    /\ app = NewApp
    /\ tasks = <<>>
    /\ di = NewDI
    /\ log = <<>>
    /\ lastOp = "new"
    /\ router = NewRouter
    /\ lastMatch = NoCall

\* container.clear()
DIClear(c) ==
    /\ log # <<>>
    /\ di' = clear(di, c)
    /\ lastOp' = "clear"
    /\ UNCHANGED <<log, routerVars, appVars>>

\* the calls are made on a container that belongs to no application
OnContainer == cfg = NoConfig /\ tasks = <<>>

\* the calls are made on an application
OnApplication == lastOp = "new"

NextClose ==
    \/ \E provider \in ClearProviderInputs : OnContainer /\ StackRegister(provider)
    \/ \E token \in Tokens : OnContainer /\ DIResolve(1, token)
    \/ \E token \in Tokens : OnContainer /\ DIResolveAsync(1, token)
    \/ \E p \in 1..Len(di.promises) : OnContainer /\ DISettle(p)
    \/ OnContainer /\ DIClear(1)
    \/ \E fo \in FilterChoices : OnApplication /\ CallInit(fo)
    \/ \E fo \in FilterChoices : OnApplication /\ CallClose(fo)
    \/ \E i \in 1..Len(tasks), fo \in FilterChoices : OnApplication /\ ResumeModules(i, fo)
    \/ \E i \in 1..Len(tasks), fo \in FilterChoices : OnApplication /\ HookReturns(i, fo)
    \/ \E p \in 1..Len(di.promises) : OnApplication /\ PromiseSettles(p)

SpecClose == InitClose /\ [][NextClose]_vars

\* the registration a record stands for
Registration(rec) == [rec EXCEPT !.instance = Undefined, !.isResolved = FALSE]

\* the root container of cs2 is that of cs1 with its caches emptied and every
\* registration kept: clearing it again changes nothing, every token resolves
\* as it did, a value provider to its value, a class to a new instance
Cleared(cs1, cs2) ==
    LET before == cs1.conts[1]
        after == cs2.conts[1]
    IN /\ DOMAIN after.providers = DOMAIN before.providers
       /\ after.providers[ContainerToken] = before.providers[ContainerToken]
       /\ \A t \in DOMAIN after.providers \ {ContainerToken} :
             /\ Registration(after.providers[t]) = Registration(before.providers[t])
             /\ after.providers[t].instance = Undefined
             /\ ~after.providers[t].isResolved
       /\ after.scopedInstances = EmptyMap
       /\ clear(cs2, 1) = cs2
       /\ \A t \in DOMAIN after.providers :
             LET was == resolveInternal(cs1, 1, t, FALSE, 1).res
                 now == resolveInternal(cs2, 1, t, FALSE, 1).res
             IN /\ was.k # "throw" => now.k # "throw"
                /\ after.providers[t].kind = "value" => now = Val(after.providers[t].value)
                /\ (after.providers[t].kind = "class" /\ now.k = "val") =>
                      now.v > Len(cs2.instances)

\* close call i returns in this step
CloseReturns(i) ==
    /\ i \in 1..Len(tasks')
    /\ tasks'[i].kind = "close"
    /\ tasks'[i].pc = "done"
    /\ i > Len(tasks) \/ tasks[i].pc # "done"

\* the instances whose class defines onModuleDestroy
Destroyable(a) ==
    {cls \in ClassesOf(a.moduleInstances) \cup ClassesOf(a.controllerInstances) :
        "onModuleDestroy" \in HooksOf(cls)}

ClearedWitness ==
    /\ lastOp = "clear"
    /\ \E i \in 1..Len(log) : log[i].token = "B" /\ log[i].res.k = "val" /\ log[i].res.v > 0
    /\ MapHas(di.conts[1].providers, "A")
    /\ di.conts[1].providers["A"].kind = "value"
    /\ MapHas(di.conts[1].providers, "B")
    /\ di.conts[1].providers["B"].kind = "class"
    /\ Len(di.instances) >= 1

-----------------------------------------------------------------------------
\* the terminal nodes the segments from index on lead to below `node`, in the
\* order matchPath tries them: static child (whole segment, or prefix and
\* suffix node), constrained parameter, parameter, wildcard
RECURSIVE Terminals(_, _, _, _)
Terminals(nodes, node, segments, index) ==
    IF index = Len(segments) + 1 THEN <<node>>
    ELSE LET segment == segments[index]
             n == nodes[node]
             hasStatic == MapHas(n.children, segment[1])
             staticChild == n.children[segment[1]]
             remaining == Slice(segment, Len(nodes[staticChild].segment) + 1)
             hasNext == MapHas(nodes[staticChild].children, remaining[1])
             nextChild == nodes[staticChild].children[remaining[1]]
             static == IF ~(hasStatic /\ StartsWith(segment, nodes[staticChild].segment)) THEN <<>>
                       ELSE IF nodes[staticChild].segment = segment
                       THEN Terminals(nodes, staticChild, segments, index + 1)
                       ELSE IF hasNext /\ remaining = nodes[nextChild].segment
                       THEN Terminals(nodes, nextChild, segments, index + 1)
                       ELSE <<>>
             fits == /\ n.paramChild # None
                     /\ nodes[n.paramChild].pattern # <<>> => RegexTest(nodes[n.paramChild].pattern, segment)
             param == IF fits THEN Terminals(nodes, n.paramChild, segments, index + 1) ELSE <<>>
             wildcard == IF n.wildcardChild # None THEN <<n.wildcardChild>> ELSE <<>>
         IN static \o param \o wildcard

\* terminal node t answers requests of this method
Answers(t, method) ==
    MapHas(router.nodes[t].handlers, method) \/ MapHas(router.nodes[t].handlers, "ALL")

\* C36: match returns null only when none of the terminal nodes the path leads
\* to has a handler for the request's method or for ALL; otherwise it returns
\* the handler of the first such node, the one for the request's method if the
\* node has it and the one for ALL if not; and of two registrations of the
\* same (method, path) the handler of the earlier one is never returned.
MethodFallback ==
    lastMatch.called =>
        LET method == lastMatch.method
            alts == Terminals(router.nodes, 1, splitPath(normalizePath(lastMatch.path)), 1)
            answering == {k \in 1..Len(alts) : Answers(alts[k], method)}
        IN IF answering = {} THEN ~lastMatch.result.found
           ELSE LET t == alts[CHOOSE k \in answering : \A j \in answering : k <= j]
                    h == lastMatch.result.handler
                IN /\ lastMatch.result.found
                   /\ h = IF MapHas(router.nodes[t].handlers, method)
                          THEN router.nodes[t].handlers[method]
                          ELSE router.nodes[t].handlers["ALL"]
                   /\ \A i \in (h + 1)..Len(router.routes) :
                         ~(/\ router.routes[i].method = router.routes[h].method
                           /\ TemplateOf(router.routes[i]) = TemplateOf(router.routes[h]))

-----------------------------------------------------------------------------
\* Path forms: the same routes are registered and requested with and without
\* leading, trailing and repeated slashes.

PathForms ==
    {<<>>, <<"/">>, <<"/", "/">>,
     <<"a">>, <<"/", "a">>, <<"/", "a", "/">>, <<"/", "/", "a", "/", "/">>,
     <<"/", "a", "/", "b">>, <<"a", "/", "/", "b", "/">>,
     <<"/", "a", "b">>, <<"a", "b", "/">>}

NextForms ==
    \/ \E path \in PathForms : Register("GET", path)
    \/ \E path \in PathForms : Match("GET", path)

SpecForms == InitRouter /\ [][NextForms]_vars

\* the registrations of the request's method whose path has the normalized
\* form of the path requested
SameForm ==
    {i \in 1..Len(router.routes) :
        /\ router.routes[i].method = lastMatch.method
        /\ normalizePath(router.routes[i].path) = normalizePath(lastMatch.path)}

\* C38: a request gets the result every other form of its path gets, and when
\* a route was registered under a form of the path, the root's forms "" and
\* "/" included, the request is matched with the handler of the last such
\* registration.
FormsAgree ==
    lastMatch.called =>
        /\ \A path \in PathForms :
              normalizePath(path) = normalizePath(lastMatch.path) =>
                 match(router, lastMatch.method, path) = lastMatch.result
        /\ SameForm # {} =>
              /\ lastMatch.result.found
              /\ lastMatch.result.handler \in SameForm
              /\ \A i \in SameForm : i <= lastMatch.result.handler

-----------------------------------------------------------------------------
\* ThrottleGuard installed as the guard of a route: requests of two clients
\* arrive as time passes. log holds the guard and the clock, in units of
\* 1000 ms; tasks the requests answered.

MaxRequests == 4

MaxTime == 4

\* `throttle:${ip}:${path}`
ThrottleKeys == {"k1", "k2"}

\* new ThrottleGuard({limit, ttl})
NewThrottleGuard(limit, ttl) == [limit |-> limit, ttl |-> ttl, storage |-> EmptyMap]

\* what a guard or handler throws: an HttpException, another Error, or a value
\* that is no Error, such as a Response
HttpError(status) == [kind |-> "HttpException", status |-> status]

ThrownResponse(status) == [kind |-> "Response", status |-> status]

NothingThrown == [kind |-> "none", status |-> 0]

\* toHttpException: an HttpException is kept, anything else becomes an
\* InternalServerErrorException
toHttpException(error) ==
    IF error.kind = "HttpException" THEN error ELSE HttpError(500)

\* errorToResponse(error).status
errorToResponse(error) == toHttpException(error).status

\* canActivate at time now: the guard afterwards, and TRUE or what is thrown
canActivate(guard, key, now) ==
    IF MapHas(guard.storage, key) /\ guard.storage[key].expiresAt > now
    THEN IF guard.storage[key].count >= guard.limit
         THEN [guard |-> guard, thrown |-> ThrownResponse(429)]
         ELSE [guard |-> [guard EXCEPT !.storage[key].count = @ + 1], thrown |-> NothingThrown]
    ELSE [guard |-> [guard EXCEPT !.storage =
                        MapSet(@, key, [count |-> 1, expiresAt |-> now + guard.ttl])],
          thrown |-> NothingThrown]

InitThrottle ==
    /\ \E limit \in {1, 2}, ttl \in {1, 2} :
          log = <<[guard |-> NewThrottleGuard(limit, ttl), now |-> 0]>>
    /\ tasks = <<>>
    /\ lastOp = "new"
    /\ di = NewDI
    /\ router = NewRouter
    /\ lastMatch = NoCall
    /\ cfg = NoConfig
    /\ app = NewApp

\* handleRequest for a request of this key: the guard loop of executePipeline,
\* then the handler, or handleException without filters for what was thrown.
\* The record keeps the time and the expiry of the key's entry.
ThrottledRequest(key) ==
    /\ Len(tasks) < MaxRequests
    /\ LET r == canActivate(log[1].guard, key, log[1].now)
       IN /\ log' = <<[log[1] EXCEPT !.guard = r.guard]>>
          /\ tasks' = Append(tasks,
                 [key |-> key, at |-> log[1].now,
                  window |-> r.guard.storage[key].expiresAt,
                  invoked |-> r.thrown = NothingThrown,
                  status |-> IF r.thrown = NothingThrown THEN 200 ELSE errorToResponse(r.thrown)])
    /\ lastOp' = "request"
    /\ UNCHANGED <<di, router, lastMatch, cfg, app>>

\* time passes
Tick ==
    /\ log[1].now < MaxTime
    /\ log' = <<[log[1] EXCEPT !.now = @ + 1]>>
    /\ lastOp' = "tick"
    /\ UNCHANGED <<di, router, lastMatch, cfg, app, tasks>>

\* the cleanup interval fires: expired entries are deleted
Cleanup ==
    /\ \E key \in DOMAIN log[1].guard.storage : log[1].guard.storage[key].expiresAt < log[1].now
    /\ log' = <<[log[1] EXCEPT !.guard.storage =
                    [key \in {k \in DOMAIN @ : @[k].expiresAt >= log[1].now} |-> @[key]]]>>
    /\ lastOp' = "cleanup"
    /\ UNCHANGED <<di, router, lastMatch, cfg, app, tasks>>

NextThrottle ==
    \/ \E key \in ThrottleKeys : ThrottledRequest(key)
    \/ Tick
    \/ Cleanup

SpecThrottle == InitThrottle /\ [][NextThrottle]_vars

\* the requests before the i-th that the handler was invoked for, of the same
\* key and the same window
AdmittedBefore(i) ==
    {j \in 1..(i - 1) :
        /\ tasks[j].key = tasks[i].key
        /\ tasks[j].window = tasks[i].window
        /\ tasks[j].invoked}

\* C39: a request reaches the handler unless `limit` requests of its key have
\* reached it in the window in force, which is then answered with 429; a
\* window opens with the first request of the key and with the first one
\* after the window before has expired.
ThrottleAnswers ==
    \A i \in 1..Len(tasks) :
        LET t == tasks[i]
            earlier == {j \in 1..(i - 1) : tasks[j].key = t.key}
            last == CHOOSE j \in earlier : \A k \in earlier : k <= j
        IN /\ t.window = IF earlier = {} \/ t.at >= tasks[last].window
                         THEN t.at + log[1].guard.ttl
                         ELSE tasks[last].window
           /\ IF Cardinality(AdmittedBefore(i)) >= log[1].guard.limit
              THEN ~t.invoked /\ t.status = 429
              ELSE t.invoked /\ t.status = 200

=============================================================================
